---- MODULE Spec2Model ----
(***************************************************************************)
(* A model of the ADW+Ralph workflow orchestration engine                  *)
(* (adws/adw_ralph_iso.py and adws/adw_modules).                            *)
(*                                                                         *)
(* Nine parts of the program are modelled, each with its own              *)
(* specification over its own group of variables:                          *)
(*   SpecRetry  prompt_claude_code_with_retry and prompt_claude_code       *)
(*   SpecProbe  get_ports_for_adw / find_next_available_ports, one call    *)
(*              against an arbitrary port namespace                        *)
(*   SpecPorts  the port allocation of main by two concurrent runs that    *)
(*              share one port namespace                                   *)
(*   SpecLoop   the planning stage and the backpressure loop of main       *)
(*   SpecTree   create_worktree, validate_worktree, remove_worktree and    *)
(*              the worktree setup of main                                 *)
(*   SpecTrunc  truncate_output, one call                                  *)
(*   SpecState  the workflow state of two processes that run main          *)
(*   SpecResult the response of prompt_claude_code for an output file      *)
(*   SpecMain   main from the run logger to the first build pass           *)
(*   SpecShip   main after the backpressure loop                           *)
(* A specification leaves the other groups at their idle values.           *)
(***************************************************************************)
EXTENDS Integers, Sequences, FiniteSets, TLC

None == "None"

\* Python's None where a response, or a pair of ports, is expected.
NoResponse == [none |-> TRUE]
NoPorts == <<>>

(***************************************************************************)
(* Part 1.  agent.py: prompt_claude_code and its retry wrapper.            *)
(***************************************************************************)

\* Largest max_retries the wrapper is called with in the model.
MaxRetries == 4

\* RetryCode (data_types.py).
CLAUDE_CODE_ERROR == "claude_code_error"
TIMEOUT_ERROR == "timeout_error"
EXECUTION_ERROR == "execution_error"
ERROR_DURING_EXECUTION == "error_during_execution"
RC_NONE == "none"

RetryCode ==
    {CLAUDE_CODE_ERROR, TIMEOUT_ERROR, EXECUTION_ERROR, ERROR_DURING_EXECUTION, RC_NONE}

\* AgentPromptResponse: output, success, session_id, retry_code.
AgentPromptResponse(output, success, session_id, retry_code) ==
    [output |-> output, success |-> success, session_id |-> session_id,
     retry_code |-> retry_code]

\* What one execution of prompt_claude_code meets in its environment:
\*   probe_raises   the version probe raises something other than FileNotFoundError
\*   not_installed  the version probe is not found or exits non-zero
\*   log_raises     save_prompt or the creation of the output directory raises
\*   open_raises    opening the output file raises
\*   exception      launching the agent raises
\*   hangs          the agent does not exit (subprocess.run is given no timeout, so
\*                  subprocess.TimeoutExpired is never raised)
\*   nonzero        the agent exits non-zero (stderr empty, blank or not)
\*   exit0          the agent exits 0; the output file has a last result record or none
\*   convert_raises the agent exits 0 and writing the .json sibling raises
AgentOutcomes ==
    [kind : {"probe_raises", "not_installed", "log_raises", "open_raises", "exception",
             "hangs", "convert_raises"}]
    \cup [kind : {"nonzero"}, stderr : {"", " ", "boom"}]
    \cup [kind : {"exit0"}, has_result : {FALSE}]
    \cup [kind : {"exit0"}, has_result : {TRUE}, is_error : BOOLEAN,
          subtype : {"success", "error_during_execution"},
          result : {"text"}, session_id : {"s1"}]

\* The outcomes on which prompt_claude_code raises instead of returning
\* (code outside its try block: lines 223, 232-236).
Raises(o) == o.kind \in {"probe_raises", "log_raises"}

\* Lines 255-262: subprocess.run waits for the agent without a timeout.
Blocks(o) == o.kind = "hangs"

\* Lines 273-280: the response for subtype error_during_execution.
ErrorDuringExecutionResponse_CodeNone(o) ==
    AgentPromptResponse("Error during execution: Agent encountered an error",
                        FALSE, o.session_id, RC_NONE)
ErrorDuringExecutionResponse_KeepsFlag(o) ==
    AgentPromptResponse("Error during execution: Agent encountered an error",
                        ~o.is_error, o.session_id, ERROR_DURING_EXECUTION)
ErrorDuringExecutionResponse(o) ==
    AgentPromptResponse("Error during execution: Agent encountered an error",
                        FALSE, o.session_id, ERROR_DURING_EXECUTION)

\* Lines 223-230: the response when check_claude_installed returns a message.
NotInstalledResponse ==
    AgentPromptResponse("Error: Claude Code CLI is not installed", FALSE, None, RC_NONE)

\* Lines 293-300: the response when the output holds no result record.
NoResultResponse_Retryable ==
    AgentPromptResponse("No result message found in Claude Code output",
                        FALSE, None, EXECUTION_ERROR)
NoResultResponse ==
    AgentPromptResponse("No result message found in Claude Code output",
                        FALSE, None, RC_NONE)

\* str.strip on the captured stderr (line 302).
Strip(text) == IF text = " " THEN "" ELSE text

\* Lines 301-310: the response when the agent exits non-zero.
NonzeroResponse_NoDiagnostics(o) ==
    AgentPromptResponse("Command failed with exit code", FALSE, None, CLAUDE_CODE_ERROR)
NonzeroResponse(o) ==
    AgentPromptResponse(IF Strip(o.stderr) # ""
                        THEN "Claude Code error: " \o Strip(o.stderr)
                        ELSE "Command failed with exit code",
                        FALSE, None, CLAUDE_CODE_ERROR)

\* Lines 312-318: the handler of subprocess.TimeoutExpired.
TimeoutResponse ==
    AgentPromptResponse("Error: Claude Code command timed out", FALSE, None, TIMEOUT_ERROR)

\* prompt_claude_code, for the outcomes on which it returns.
prompt_claude_code(o) ==
    CASE o.kind = "not_installed" -> NotInstalledResponse
      [] o.kind = "exit0" /\ o.has_result /\ o.subtype = "error_during_execution" ->
           ErrorDuringExecutionResponse(o)
      [] o.kind = "exit0" /\ o.has_result /\ o.subtype # "error_during_execution" ->
           AgentPromptResponse(o.result, ~o.is_error, o.session_id, RC_NONE)
      [] o.kind = "exit0" /\ ~o.has_result -> NoResultResponse
      [] o.kind = "nonzero" -> NonzeroResponse(o)
      [] o.kind = "timeout" -> TimeoutResponse
      [] o.kind \in {"open_raises", "exception", "convert_raises"} ->
           AgentPromptResponse("Error executing Claude Code", FALSE, None, EXECUTION_ERROR)

\* The steps of prompt_claude_code that act on its environment, in the order of the
\* code: the version probe (line 223), save_prompt (232), opening the output file
\* (254), launching the agent (255).
Steps_SaveFirst == <<"save_prompt", "probe", "open_output", "launch">>
Steps == <<"probe", "save_prompt", "open_output", "launch">>

\* How many of the steps an execution starts.
StepsReached(o) ==
    CASE o.kind \in {"probe_raises", "not_installed"} -> 1
      [] o.kind = "log_raises" -> 2
      [] o.kind = "open_raises" -> 3
      [] OTHER -> 4

\* The steps one execution of prompt_claude_code starts.
Effects(o) == SubSeq(Steps, 1, StepsReached(o))

\* All responses prompt_claude_code can return.
Responses ==
    {prompt_claude_code(o) : o \in {x \in AgentOutcomes : ~Raises(x) /\ ~Blocks(x)}}

\* The default delay schedule (line 188).
DefaultRetryDelays == <<1, 3, 5>>

\* Lines 190-191: the schedule extended with last + 2 up to max_retries entries.
RECURSIVE ExtendDelays(_, _)
ExtendDelays(delays, n) ==
    IF Len(delays) < n
    THEN ExtendDelays(Append(delays, delays[Len(delays)] + 2), n)
    ELSE delays

\* Line 195: the attempts of the for loop, range(max_retries + 1).
AttemptRange_Short(n) == 0 .. (n - 1)
AttemptRange(n) == 0 .. n

\* Line 203: the wrapper returns at once.
ShouldReturn_SuccessOnly(resp) == resp.success
ShouldReturn(resp) == resp.success \/ resp.retry_code = RC_NONE

\* Lines 206-211.
IsRetryable(resp) ==
    resp.retry_code \in
        {CLAUDE_CODE_ERROR, TIMEOUT_ERROR, EXECUTION_ERROR, ERROR_DURING_EXECUTION}

\* Line 212.
MayContinue_OffByOne(a, n) == a + 1 < n
MayContinue(a, n) == a < n

VARIABLES
    rpc,            \* where the wrapper is: idle, start, loop, returned, raised
                    \* (prompt_claude_code raised), blocked (it does not return),
                    \* index_error (line 191 raised)
    max_retries,    \* its argument
    retry_delays,   \* its argument (None: the default), then the schedule in use
    attempt,        \* the loop variable
    last_response,  \* line 193 / 201
    returned,       \* the value returned (NoResponse: Python's None)
    calls,          \* history: the responses of the invocations of prompt_claude_code
    sleeps,         \* history: the delays slept, in order
    effects,        \* history: the steps the invocations of prompt_claude_code started
    last_outcome    \* history: what the latest invocation of prompt_claude_code met

retryVars ==
    <<rpc, max_retries, retry_delays, attempt, last_response, returned, calls, sleeps,
      effects, last_outcome>>

\* No invocation of prompt_claude_code yet.
NoOutcome == [kind |-> "none"]

\* The delay arguments of the model: the default, and three caller-given schedules.
DelayArgs == {None, <<>>, <<2>>, <<1, 1>>}

\* Line 191 reads retry_delays[-1]: IndexError on an empty list.
ExtendRaises(delays, n) == delays = <<>> /\ Len(delays) < n

RetryIdle ==
    /\ rpc = "idle" /\ max_retries = 0 /\ retry_delays = None /\ attempt = 0
    /\ last_response = NoResponse /\ returned = NoResponse /\ calls = <<>> /\ sleeps = <<>>
    /\ effects = <<>> /\ last_outcome = NoOutcome

\* A call prompt_claude_code_with_retry(request, max_retries, retry_delays).
RetryInit ==
    /\ rpc = "start"
    /\ max_retries \in -1 .. MaxRetries
    /\ retry_delays \in DelayArgs
    /\ attempt = 0
    /\ last_response = NoResponse
    /\ returned = NoResponse
    /\ calls = <<>>
    /\ sleeps = <<>>
    /\ effects = <<>> /\ last_outcome = NoOutcome

\* Lines 187-193: the schedule is fixed and the loop entered, or line 191 raises.
RetryEnter ==
    /\ rpc = "start"
    /\ LET delays == IF retry_delays = None THEN DefaultRetryDelays ELSE retry_delays IN
       IF ExtendRaises(delays, max_retries)
       THEN /\ rpc' = "index_error"
            /\ retry_delays' = delays
       ELSE /\ rpc' = "loop"
            /\ retry_delays' = ExtendDelays(delays, max_retries)
    /\ last_response' = NoResponse
    /\ UNCHANGED <<max_retries, attempt, returned, calls, sleeps, effects, last_outcome>>

\* Lines 195-215: one iteration of the for loop.
RetryAttempt ==
    /\ rpc = "loop"
    /\ attempt \in AttemptRange(max_retries)
    /\ sleeps' = IF attempt > 0 THEN Append(sleeps, retry_delays[attempt]) ELSE sleeps
    /\ \E o \in AgentOutcomes :
          /\ effects' = effects \o Effects(o)
          /\ last_outcome' = o
          /\ IF Raises(o) \/ Blocks(o)
             THEN /\ rpc' = IF Raises(o) THEN "raised" ELSE "blocked"
                  /\ UNCHANGED <<attempt, last_response, returned, calls>>
             ELSE LET response == prompt_claude_code(o) IN
                  /\ calls' = Append(calls, response)
                  /\ last_response' = response
                  /\ IF ShouldReturn(response)
                     THEN /\ returned' = response
                          /\ rpc' = "returned"
                          /\ UNCHANGED attempt
                     ELSE IF IsRetryable(response) /\ ~MayContinue(attempt, max_retries)
                     THEN /\ returned' = response
                          /\ rpc' = "returned"
                          /\ UNCHANGED attempt
                     ELSE /\ attempt' = attempt + 1
                          /\ UNCHANGED <<returned, rpc>>
    /\ UNCHANGED <<max_retries, retry_delays>>

\* Line 217: the loop ran out.
RetryFallThrough ==
    /\ rpc = "loop"
    /\ attempt \notin AttemptRange(max_retries)
    /\ returned' = last_response
    /\ rpc' = "returned"
    /\ UNCHANGED <<max_retries, retry_delays, attempt, last_response, calls, sleeps,
                   effects, last_outcome>>

(***************************************************************************)
(* Part 2.  worktree_ops.py: port allocation, and its use by main.         *)
(***************************************************************************)

\* Longest run identifier built from IdChars (the long identifiers are listed).
MaxIdLen == 2

\* The runs (operating-system processes) of the model.
Runs == {1, 2}

\* Lines 128, 130, 155: the number of port slots.
NumSlots == 15
\* Lines 132, 156 and 133, 157: the first port of each range.
BACKEND_BASE == 9100
FRONTEND_BASE == 9200
\* Line 149: the default of max_attempts.
MAX_ATTEMPTS == 15
\* Line 127: adw_id[:8].
ID_PREFIX_LEN == 8

\* The digits of int(s, 36); a digit's value is its position less one.  The model's
\* identifiers are lower case (int() reads upper case letters as the same digits).
Base36Digits ==
    <<"0", "1", "2", "3", "4", "5", "6", "7", "8", "9", "a", "b", "c", "d", "e", "f",
      "g", "h", "i", "j", "k", "l", "m", "n", "o", "p", "q", "r", "s", "t", "u", "v",
      "w", "x", "y", "z">>

Base36Chars == {Base36Digits[i] : i \in 1 .. Len(Base36Digits)}

DigitValue(c) == (CHOOSE i \in 1 .. Len(Base36Digits) : Base36Digits[i] = c) - 1

\* str.isalnum of one character.  "E_ACUTE" stands for a letter outside ASCII: it is
\* alphanumeric, and int(s, 36) rejects it.
IsAlnum(c) == c \in Base36Chars \cup {"E_ACUTE"}

\* Line 127: ''.join(c for c in adw_id[:8] if c.isalnum()).
IdChars(id) ==
    SelectSeq(SubSeq(id, 1, IF Len(id) < ID_PREFIX_LEN THEN Len(id) ELSE ID_PREFIX_LEN),
              IsAlnum)

\* Whether int(chars, 36) returns (otherwise it raises ValueError).
ParsesBase36(chars) ==
    /\ Len(chars) > 0
    /\ \A i \in 1 .. Len(chars) : chars[i] \in Base36Chars

\* int(chars, 36) % m.  Python's integers are unbounded; the value is reduced modulo m
\* after every digit, which gives the same residue and stays within TLC's integers.
RECURSIVE IntBase36Mod(_, _)
IntBase36Mod(chars, m) ==
    IF chars = <<>>
    THEN 0
    ELSE (IntBase36Mod(SubSeq(chars, 1, Len(chars) - 1), m) * 36
              + DigitValue(chars[Len(chars)])) % m

\* Lines 126-130: index; h is hash(adw_id) % 15 in the calling process.
PortIndex(id, h) ==
    IF ParsesBase36(IdChars(id)) THEN IntBase36Mod(IdChars(id), NumSlots) ELSE h

\* Lines 124-135.
get_ports_for_adw(id, h) ==
    <<BACKEND_BASE + PortIndex(id, h), FRONTEND_BASE + PortIndex(id, h)>>

\* Line 155: index = (base_index + offset) % 15.
SlotIndex_NoWrap(base, off) == base + off
SlotIndex(base, off) == (base + off) % NumSlots

\* The two port ranges.
AllPorts ==
    {BACKEND_BASE + i : i \in 0 .. (NumSlots - 1)}
        \cup {FRONTEND_BASE + i : i \in 0 .. (NumSlots - 1)}

\* The characters the short identifiers of the model are built from.
ShortIdChars == {"a", "z", "7", "-"}

RECURSIVE SeqsOfLen(_, _)
SeqsOfLen(S, n) ==
    IF n = 0 THEN {<<>>}
    ELSE {Append(q, x) : q \in SeqsOfLen(S, n - 1), x \in S}

LongIds ==
    { <<"a", "1", "b", "2", "c", "3", "d", "4">>,
      <<"a", "1", "b", "2", "c", "3", "d", "4", "z">>,
      <<"-", "-", "-", "-", "-", "-", "-", "-", "a">>,
      <<"a", "E_ACUTE">> }

\* The run identifiers of the model.
RunIds == UNION {SeqsOfLen(ShortIdChars, n) : n \in 1 .. MaxIdLen} \cup LongIds

\* The identifiers of the two-run specification: two with the same slot, one with
\* another slot, one that int() rejects.
PortRunIds == {<<"a">>, <<"z", "a">>, <<"z">>, <<"-">>}

\* The residues hash(adw_id) % 15 can take in a process (str hashes are salted per
\* process).
HashResidues == 0 .. (NumSlots - 1)

VARIABLES
    adw_id,         \* [run -> identifier]
    pyhash,         \* [run -> hash(adw_id) % 15 in the run's process]
    ppc,            \* [run -> where the run is in lines 473-480 / 149-162]
    base_index,     \* [run -> line 152]
    offset,         \* [run -> line 154]
    backend_port,   \* [run -> the candidate backend port]
    frontend_port,  \* [run -> the candidate frontend port]
    alloc,          \* [run -> the pair saved to state (line 478), or NoPorts]
    bound,          \* the ports bound by some socket
    listening,      \* [run -> the ports of its pair its services are bound to]
    tested,         \* history: [run -> the slots find_next_available_ports tested]
    listenersAtAlloc \* history: [run -> the runs whose frontend service was
                    \*            listening when the run's allocation completed]

portVars ==
    <<adw_id, pyhash, ppc, base_index, offset, backend_port, frontend_port, alloc, bound,
      listening, tested, listenersAtAlloc>>

\* Lines 138-146: a bind on the port succeeds (the socket is closed at once).
is_port_available_Always(port) == TRUE
is_port_available(port) == port \notin bound

PortsIdle ==
    /\ adw_id = [r \in Runs |-> <<>>]
    /\ pyhash = [r \in Runs |-> 0]
    /\ ppc = [r \in Runs |-> "idle"]
    /\ base_index = [r \in Runs |-> 0]
    /\ offset = [r \in Runs |-> 0]
    /\ backend_port = [r \in Runs |-> 0]
    /\ frontend_port = [r \in Runs |-> 0]
    /\ alloc = [r \in Runs |-> NoPorts]
    /\ bound = {}
    /\ listening = [r \in Runs |-> {}]
    /\ tested = [r \in Runs |-> <<>>]
    /\ listenersAtAlloc = [r \in Runs |-> {}]

\* hash() is only called for an identifier int() rejects.
HashChoices(id) == IF ParsesBase36(IdChars(id)) THEN {0} ELSE HashResidues

\* The runs in `active` start main with identifiers from `ids`, no port bound.
PortsInit(active, ids) ==
    /\ adw_id \in [Runs -> ids]
    /\ \A r \in Runs : ~(r \in active) => adw_id[r] = CHOOSE i \in ids : TRUE
    /\ pyhash \in [Runs -> HashResidues]
    /\ \A r \in Runs : pyhash[r] \in (IF r \in active THEN HashChoices(adw_id[r]) ELSE {0})
    /\ ppc = [r \in Runs |-> IF r \in active THEN "main" ELSE "idle"]
    /\ base_index = [r \in Runs |-> 0]
    /\ offset = [r \in Runs |-> 0]
    /\ backend_port = [r \in Runs |-> 0]
    /\ frontend_port = [r \in Runs |-> 0]
    /\ alloc = [r \in Runs |-> NoPorts]
    /\ bound = {}
    /\ listening = [r \in Runs |-> {}]
    /\ tested = [r \in Runs |-> <<>>]
    /\ listenersAtAlloc = [r \in Runs |-> {}]

\* The runs other than r whose frontend service is listening.
FrontendListeners(r) ==
    {q \in Runs \ {r} : alloc[q] # NoPorts /\ alloc[q][2] \in listening[q]}

\* Lines 477-479: the pair is saved to the run's state.
Allocate(r, b, f) ==
    /\ alloc' = [alloc EXCEPT ![r] = <<b, f>>]
    /\ listenersAtAlloc' = [listenersAtAlloc EXCEPT ![r] = FrontendListeners(r)]
    /\ ppc' = [ppc EXCEPT ![r] = "allocated"]

\* Line 473.
MainGetPorts(r) ==
    /\ ppc[r] = "main"
    /\ backend_port' = [backend_port EXCEPT ![r] = get_ports_for_adw(adw_id[r], pyhash[r])[1]]
    /\ frontend_port' = [frontend_port EXCEPT ![r] = get_ports_for_adw(adw_id[r], pyhash[r])[2]]
    /\ ppc' = [ppc EXCEPT ![r] = "main_b"]
    /\ UNCHANGED <<adw_id, pyhash, base_index, offset, alloc, bound, listening, tested,
                   listenersAtAlloc>>

\* Line 474, first operand: is_port_available(backend_port).
MainProbeBackend(r) ==
    /\ ppc[r] = "main_b"
    /\ ppc' = [ppc EXCEPT ![r] = IF is_port_available(backend_port[r])
                                 THEN "main_f" ELSE "find"]
    /\ UNCHANGED <<adw_id, pyhash, base_index, offset, backend_port, frontend_port, alloc,
                   bound, listening, tested, listenersAtAlloc>>

\* Line 474, second operand, and lines 477-479 when both were available.
MainProbeFrontend(r) ==
    /\ ppc[r] = "main_f"
    /\ IF is_port_available(frontend_port[r])
       THEN Allocate(r, backend_port[r], frontend_port[r])
       ELSE /\ ppc' = [ppc EXCEPT ![r] = "find"]
            /\ UNCHANGED <<alloc, listenersAtAlloc>>
    /\ UNCHANGED <<adw_id, pyhash, base_index, offset, backend_port, frontend_port, bound,
                   listening, tested>>

\* Lines 151-152: find_next_available_ports is entered.
FindEnter(r) ==
    /\ ppc[r] = "find"
    /\ base_index' =
          [base_index EXCEPT ![r] = get_ports_for_adw(adw_id[r], pyhash[r])[1] - BACKEND_BASE]
    /\ offset' = [offset EXCEPT ![r] = 0]
    /\ ppc' = [ppc EXCEPT ![r] = "find_b"]
    /\ UNCHANGED <<adw_id, pyhash, backend_port, frontend_port, alloc, bound, listening,
                   tested, listenersAtAlloc>>

\* Lines 154-159 (first operand) and 162: the next slot, its backend probe, or the
\* RuntimeError when the loop ran out (main does not catch it).
FindProbeBackend(r) ==
    /\ ppc[r] = "find_b"
    /\ IF offset[r] >= MAX_ATTEMPTS
       THEN /\ ppc' = [ppc EXCEPT ![r] = "raised"]
            /\ UNCHANGED <<offset, backend_port, frontend_port, tested>>
       ELSE LET index == SlotIndex(base_index[r], offset[r])
                b == BACKEND_BASE + index
                f == FRONTEND_BASE + index
            IN  /\ backend_port' = [backend_port EXCEPT ![r] = b]
                /\ frontend_port' = [frontend_port EXCEPT ![r] = f]
                /\ IF is_port_available(b)
                   THEN /\ ppc' = [ppc EXCEPT ![r] = "find_f"]
                        /\ UNCHANGED <<offset, tested>>
                   ELSE /\ tested' = [tested EXCEPT ![r] =
                               Append(@, [slot |-> index, backend |-> b, frontend |-> f,
                                          ok |-> FALSE])]
                        /\ offset' = [offset EXCEPT ![r] = @ + 1]
                        /\ UNCHANGED ppc
    /\ UNCHANGED <<adw_id, pyhash, base_index, alloc, bound, listening, listenersAtAlloc>>

\* Lines 159 (second operand) and 160; on return main saves the pair (477-479).
FindProbeFrontend(r) ==
    /\ ppc[r] = "find_f"
    /\ tested' = [tested EXCEPT ![r] =
          Append(@, [slot |-> backend_port[r] - BACKEND_BASE, backend |-> backend_port[r],
                     frontend |-> frontend_port[r],
                     ok |-> is_port_available(frontend_port[r])])]
    /\ IF is_port_available(frontend_port[r])
       THEN /\ Allocate(r, backend_port[r], frontend_port[r])
            /\ UNCHANGED offset
       ELSE /\ offset' = [offset EXCEPT ![r] = @ + 1]
            /\ ppc' = [ppc EXCEPT ![r] = "find_b"]
            /\ UNCHANGED <<alloc, listenersAtAlloc>>
    /\ UNCHANGED <<adw_id, pyhash, base_index, backend_port, frontend_port, bound, listening>>

\* A service of the run (the dev server capture_screenshots starts on the frontend
\* port, the application on the backend port) binds one port of the run's pair.
Listen(r, p) ==
    /\ ppc[r] = "allocated"
    /\ p \in {alloc[r][1], alloc[r][2]}
    /\ p \notin bound
    /\ bound' = bound \cup {p}
    /\ listening' = [listening EXCEPT ![r] = @ \cup {p}]
    /\ UNCHANGED <<adw_id, pyhash, ppc, base_index, offset, backend_port, frontend_port,
                   alloc, tested, listenersAtAlloc>>

\* The run's process and its services end; their sockets are closed.
RunEnd(r) ==
    /\ ppc[r] = "allocated"
    /\ ppc' = [ppc EXCEPT ![r] = "done"]
    /\ bound' = bound \ listening[r]
    /\ listening' = [listening EXCEPT ![r] = {}]
    /\ UNCHANGED <<adw_id, pyhash, base_index, offset, backend_port, frontend_port, alloc,
                   tested, listenersAtAlloc>>

\* Processes outside the model bind and release the ports the run is about to probe.
EnvSet(r) ==
    /\ ppc[r] \in {"main_b", "main_f", "find_b", "find_f"}
    /\ LET index == IF ppc[r] = "find_b" /\ offset[r] < MAX_ATTEMPTS
                    THEN SlotIndex(base_index[r], offset[r])
                    ELSE backend_port[r] - BACKEND_BASE
       IN  bound' \in SUBSET {BACKEND_BASE + index, FRONTEND_BASE + index}
    /\ bound' # bound
    /\ UNCHANGED <<adw_id, pyhash, ppc, base_index, offset, backend_port, frontend_port,
                   alloc, listening, tested, listenersAtAlloc>>

(***************************************************************************)
(* Part 3.  adw_ralph_iso.py: the planning stage and the backpressure loop *)
(* of main (lines 548-651).                                                *)
(***************************************************************************)

\* Most tests one test invocation reports.
MaxTests == 2
\* Most passes of the backpressure loop followed (the loop itself is unbounded when
\* the cap is 0).
MaxLoops == 3
\* Largest loop cap other than 0.
MaxCap == 2

\* Line 74: the loop cap of the source, 0 = unlimited.
MAX_BACKPRESSURE_LOOPS == 0

\* The loop caps of the model: the source's and the caps 1 .. MaxCap.
LoopCaps == {MAX_BACKPRESSURE_LOOPS} \cup (1 .. MaxCap)

\* TestResult (data_types.py).
TestResult ==
    {t \in [test_name : {"t1", "t2"}, passed : BOOLEAN, execution_command : {"run"},
            test_purpose : {"why"}, error : {None, "E"}] : t.passed => t.error = None}

\* What the /test invocation of run_tests produces: a failed response, output that
\* does not parse as List[TestResult], or a list of results.
TestOutcomes ==
    [kind : {"failed_response", "unparseable"}]
    \cup [kind : {"results"},
          results : UNION {SeqsOfLen(TestResult, n) : n \in 0 .. MaxTests}]

\* Line 152.
PassedCount(results) == Cardinality({i \in DOMAIN results : results[i].passed})

\* Lines 130-157: run_tests returns (results, passed_count, failed_count).
run_tests_FailureCounts(o) ==
    IF o.kind = "results"
    THEN <<o.results, PassedCount(o.results), Len(o.results) - PassedCount(o.results)>>
    ELSE <<(<<>>), 0, 1>>
run_tests(o) ==
    IF o.kind = "results"
    THEN <<o.results, PassedCount(o.results), Len(o.results) - PassedCount(o.results)>>
    ELSE <<(<<>>), 0, 0>>

\* Line 603.
AllTestsPassed_AnyPassed(passed_count, failed_count) == passed_count > 0
AllTestsPassed(passed_count, failed_count) == failed_count = 0

\* Line 613.
CapReached_OffByOne(loop, cap) == cap # 0 /\ loop > cap
CapReached(loop, cap) == cap # 0 /\ loop >= cap

\* Line 621.
FailedTests_All(results) == results
FailedTests(results) == SelectSeq(results, LAMBDA t : ~t.passed)

\* Lines 639-642: the entry of one failing test.
FailureEntry(t) ==
    [test_name |-> t.test_name, execution_command |-> t.execution_command,
     test_purpose |-> t.test_purpose,
     error |-> IF t.error \in {None, ""} THEN "unknown" ELSE t.error]

\* Lines 635-642: the text of TEST_FAILURES.md.
FailuresText(loop, failed_count, failed_tests) ==
    [loop |-> loop, failed |-> failed_count,
     entries |-> [i \in DOMAIN failed_tests |-> FailureEntry(failed_tests[i])]]

\* A file that does not exist.
Absent == [absent |-> TRUE]

\* TEST_FAILURES.md as a run that was killed while re-planning left it in the worktree.
StaleFailures ==
    FailuresText(1, 1, <<[test_name |-> "t1", passed |-> FALSE, execution_command |-> "run",
                          test_purpose |-> "why", error |-> "E"]>>)

VARIABLES
    pc,                 \* where main is
    skip_tests,         \* line 426
    skip_review,        \* line 427
    max_loops,          \* the loop cap (MAX_BACKPRESSURE_LOOPS)
    plan_file,          \* whether IMPLEMENTATION_PLAN.md exists in the worktree
    failures_file,      \* TEST_FAILURES.md in the worktree: its text, or Absent
    state_plan_file,    \* state.plan_file
    success,            \* the result of the last run_ralph_phase
    test_results,       \* line 578 / 602
    passed,             \* line 602
    failed,             \* line 602
    all_tests_passed,   \* line 577 / 603
    backpressure_loop,  \* line 579 / 582
    exit_code,          \* the status of sys.exit, or None
    trace,              \* history: the steps taken, in order
    failHist,           \* history: the failed count of each test invocation
    testKind,           \* history: what the last test invocation produced
    planWritten,        \* history: the initial planning of this run wrote the plan
    planRecorded        \* history: this run has executed line 568

loopVars ==
    <<pc, skip_tests, skip_review, max_loops, plan_file, failures_file, state_plan_file,
      success, test_results, passed, failed, all_tests_passed, backpressure_loop,
      exit_code, trace, failHist, testKind, planWritten, planRecorded>>

LoopIdle ==
    /\ pc = "idle" /\ skip_tests = FALSE /\ skip_review = FALSE
    /\ max_loops = MAX_BACKPRESSURE_LOOPS
    /\ plan_file = FALSE /\ failures_file = Absent /\ state_plan_file = None
    /\ success = TRUE /\ test_results = <<>> /\ passed = 0 /\ failed = 0
    /\ all_tests_passed = FALSE /\ backpressure_loop = 0 /\ exit_code = None
    /\ trace = <<>> /\ failHist = <<>> /\ testKind = None
    /\ planWritten = FALSE /\ planRecorded = FALSE

\* main has generated the spec (line 546); a worktree that is reused may hold the plan
\* and the failure file of an earlier run.
LoopInit ==
    /\ pc = "clean_plan"
    /\ skip_tests \in BOOLEAN
    /\ skip_review \in BOOLEAN
    /\ max_loops \in LoopCaps
    /\ plan_file \in BOOLEAN
    /\ failures_file \in {Absent, StaleFailures}
    /\ state_plan_file = IF failures_file = Absent THEN None ELSE "IMPLEMENTATION_PLAN.md"
    /\ success = TRUE
    /\ test_results = <<>>
    /\ passed = 0
    /\ failed = 0
    /\ all_tests_passed = FALSE
    /\ backpressure_loop = 0
    /\ exit_code = None
    /\ trace = <<>>
    /\ failHist = <<>>
    /\ testKind = None
    /\ planWritten = FALSE
    /\ planRecorded = FALSE

\* The stage after the loop (line 654).
AfterLoop == IF skip_review THEN "finalize" ELSE "review"

\* Lines 549-551: whether the plan exists once an existing one has been removed.
PlanAfterCleanup_Kept(exists) == exists
PlanAfterCleanup(exists) == FALSE

\* Lines 548-551: an existing plan is removed.
CleanPlan ==
    /\ pc = "clean_plan"
    /\ UNCHANGED <<testKind, planWritten, planRecorded>>
    /\ plan_file' = PlanAfterCleanup(plan_file)
    /\ pc' = "plan"
    /\ UNCHANGED <<skip_tests, skip_review, max_loops, failures_file, state_plan_file,
                   success, test_results, passed, failed, all_tests_passed,
                   backpressure_loop, exit_code, trace, failHist>>

\* Lines 560-566: the run ends with status 1 after the initial planning.
PlanFatal_ArtifactOnly(ok, plan_exists) == ~plan_exists
PlanFatal(ok, plan_exists) == ~ok \/ ~plan_exists

\* Lines 559-577: the planning phase runs (it may write the plan whatever its exit
\* status is); a failed phase or a missing plan ends the run with status 1.
Plan ==
    /\ pc = "plan"
    /\ UNCHANGED testKind
    /\ \E ok \in BOOLEAN, written \in BOOLEAN :
          /\ success' = ok
          /\ plan_file' = (plan_file \/ written)
          /\ planWritten' = written
          /\ IF PlanFatal(ok, plan_file')
             THEN /\ exit_code' = 1
                  /\ pc' = "exit"
                  /\ UNCHANGED <<state_plan_file, planRecorded>>
             ELSE /\ state_plan_file' = "IMPLEMENTATION_PLAN.md"
                  /\ planRecorded' = TRUE
                  /\ pc' = "build"
                  /\ UNCHANGED exit_code
    /\ trace' = Append(trace, "plan")
    /\ UNCHANGED <<skip_tests, skip_review, max_loops, failures_file, test_results, passed,
                   failed, all_tests_passed, backpressure_loop, failHist>>

\* Lines 581-592: a pass of the loop starts and the build phase runs; its failure is
\* only logged.
Build ==
    /\ pc = "build"
    /\ UNCHANGED <<testKind, planWritten, planRecorded>>
    /\ backpressure_loop < MaxLoops
    /\ backpressure_loop' = backpressure_loop + 1
    /\ \E ok \in BOOLEAN : success' = ok
    /\ trace' = Append(trace, "build")
    /\ pc' = "commit"
    /\ UNCHANGED <<skip_tests, skip_review, max_loops, plan_file, failures_file,
                   state_plan_file, test_results, passed, failed, all_tests_passed,
                   exit_code, failHist>>

\* What commit_changes meets: a clean tree, a failing git add, a failing git commit,
\* or a commit made.
CommitOutcomes == {"clean", "add_fails", "commit_fails", "committed"}

\* git_ops.py, lines 89-110: commit_changes returns (success, error_message).
commit_changes(o) ==
    CASE o = "clean" -> <<TRUE, None>>
      [] o = "add_fails" -> <<FALSE, "add: stderr">>
      [] o = "commit_fails" -> <<FALSE, "commit: stderr">>
      [] o = "committed" -> <<TRUE, None>>

\* Line 597.
TestsSkipped_AfterFailedBuild(skip, build_ok) == skip \/ ~build_ok
TestsSkipped(skip, build_ok) == skip

\* Lines 594-600: commit_changes (its result is not read), then --skip-tests.
Commit ==
    /\ pc = "commit"
    /\ UNCHANGED <<testKind, planWritten, planRecorded>>
    /\ \E o \in CommitOutcomes : commit_changes(o) \in BOOLEAN \X {None, "add: stderr", "commit: stderr"}
    /\ trace' = Append(trace, "commit")
    /\ IF TestsSkipped(skip_tests, success)
       THEN /\ all_tests_passed' = TRUE
            /\ pc' = AfterLoop
       ELSE /\ pc' = "test"
            /\ UNCHANGED all_tests_passed
    /\ UNCHANGED <<skip_tests, skip_review, max_loops, plan_file, failures_file,
                   state_plan_file, success, test_results, passed, failed,
                   backpressure_loop, exit_code, failHist>>

\* Lines 602-618: the test invocation and the decision that follows it.
Test ==
    /\ pc = "test"
    /\ \E o \in TestOutcomes :
          /\ test_results' = run_tests(o)[1]
          /\ passed' = run_tests(o)[2]
          /\ failed' = run_tests(o)[3]
          /\ testKind' = o.kind
    /\ UNCHANGED <<planWritten, planRecorded>>
    /\ all_tests_passed' = AllTestsPassed(passed', failed')
    /\ trace' = Append(trace, "test")
    /\ failHist' = Append(failHist, failed')
    /\ pc' = IF all_tests_passed' THEN AfterLoop
             ELSE IF CapReached(backpressure_loop, max_loops) THEN AfterLoop
             ELSE "replan_write"
    /\ UNCHANGED <<skip_tests, skip_review, max_loops, plan_file, failures_file,
                   state_plan_file, success, backpressure_loop, exit_code>>

\* Lines 620-642: the failing tests are written to TEST_FAILURES.md.
ReplanWrite ==
    /\ pc = "replan_write"
    /\ UNCHANGED <<testKind, planWritten, planRecorded>>
    /\ failures_file' = FailuresText(backpressure_loop, failed, FailedTests(test_results))
    /\ trace' = Append(trace, "write")
    /\ pc' = "replan_plan"
    /\ UNCHANGED <<skip_tests, skip_review, max_loops, plan_file, state_plan_file, success,
                   test_results, passed, failed, all_tests_passed, backpressure_loop,
                   exit_code, failHist>>

\* Lines 645-647: the planning phase runs again; its failure is only logged.
ReplanPlan ==
    /\ pc = "replan_plan"
    /\ UNCHANGED <<testKind, planWritten, planRecorded>>
    /\ \E ok \in BOOLEAN, written \in BOOLEAN :
          /\ success' = ok
          /\ plan_file' = (plan_file \/ written)
    /\ trace' = Append(trace, "plan")
    /\ pc' = "replan_cleanup"
    /\ UNCHANGED <<skip_tests, skip_review, max_loops, failures_file, state_plan_file,
                   test_results, passed, failed, all_tests_passed, backpressure_loop,
                   exit_code, failHist>>

\* Lines 650-651: TEST_FAILURES.md is removed if it exists; the loop goes on.
ReplanCleanup_NoDelete ==
    /\ pc = "replan_cleanup"
    /\ UNCHANGED <<testKind, planWritten, planRecorded>>
    /\ pc' = "build"
    /\ UNCHANGED <<skip_tests, skip_review, max_loops, plan_file, failures_file,
                   state_plan_file, success, test_results, passed, failed,
                   all_tests_passed, backpressure_loop, exit_code, trace, failHist>>
ReplanCleanup ==
    /\ pc = "replan_cleanup"
    /\ UNCHANGED <<testKind, planWritten, planRecorded>>
    /\ IF failures_file # Absent
       THEN /\ failures_file' = Absent
            /\ trace' = Append(trace, "delete")
       ELSE UNCHANGED <<failures_file, trace>>
    /\ pc' = "build"
    /\ UNCHANGED <<skip_tests, skip_review, max_loops, plan_file, state_plan_file, success,
                   test_results, passed, failed, all_tests_passed, backpressure_loop,
                   exit_code, failHist>>

(***************************************************************************)
(* Part 4.  worktree_ops.py: create_worktree, validate_worktree and        *)
(* remove_worktree, and the worktree setup of main (lines 465-520).        *)
(***************************************************************************)

\* Most library calls made in a row.
MaxCalls == 2

\* Paths and run identifiers are sequences of characters.
ProjectRoot == <<"/", "r">>
TreeIds == {<<"a">>, <<"a", "b">>}

\* Lines 17-20 and 69-74: the canonical path trees/<adw_id> under the project root.
TreePath(id) == ProjectRoot \o <<"/", "t", "/">> \o id

TreePaths == {TreePath(id) : id \in TreeIds}

\* No path: Python's None or the empty string (both are false at line 56).
NoPath == <<>>

\* No error message.
NoError == <<>>

\* os.path.exists.
PathExists_Never(path, existing) == FALSE
PathExists(path, existing) == path \in existing

\* Python's `p in q` on strings.
Substr(p_, q_) ==
    \E k \in 0 .. (Len(q_) - Len(p_)) : SubSeq(q_, k + 1, k + Len(p_)) = p_

\* The text of git worktree list: a line for the main worktree and one for every
\* registered worktree, each starting with its path.
WorktreeList(reg) == {q \o <<" ", "c", "0">> : q \in reg \cup {ProjectRoot}}

\* Line 63.
InWorktreeList(path, reg) == \E line \in WorktreeList(reg) : Substr(path, line)

\* Lines 53-66: validate_worktree returns (valid, error).
validate_worktree(state_path, existing, reg) ==
    IF state_path = NoPath
    THEN [valid |-> FALSE, msg |-> "No worktree_path in state", path |-> NoPath]
    ELSE IF ~PathExists(state_path, existing)
    THEN [valid |-> FALSE, msg |-> "Worktree directory not found: ", path |-> state_path]
    ELSE IF ~InWorktreeList(state_path, reg)
    THEN [valid |-> FALSE, msg |-> "Worktree not registered with git", path |-> NoPath]
    ELSE [valid |-> TRUE, msg |-> None, path |-> NoPath]

\* Line 40: the failed add is retried on the existing branch.
NeedsFallback_Never(add) == FALSE
NeedsFallback(add) == add = "already_exists"

\* Line 85: the directory is deleted directly.
NeedsManualRemoval(git_ok) == ~git_ok

VARIABLES
    tmode,                \* "main": the worktree setup of main; "calls": library calls
    tpc,                  \* where main is
    t_adw_id,             \* the run identifier
    dirs,                 \* the directories that exist
    registry,             \* the worktrees registered with git (besides the main one)
    branch_exists,        \* whether branch_name exists
    state_worktree_path,  \* state.get("worktree_path")
    valid,                \* line 466
    worktree_path,        \* lines 469 / 480 / 513
    texit,                \* the status of sys.exit, or None
    callLog               \* history: the calls of the three functions, in order

treeVars ==
    <<tmode, tpc, t_adw_id, dirs, registry, branch_exists, state_worktree_path, valid,
      worktree_path, texit, callLog>>

TreeIdle ==
    /\ tmode = "idle" /\ tpc = "idle" /\ t_adw_id = <<>> /\ dirs = {} /\ registry = {}
    /\ branch_exists = FALSE /\ state_worktree_path = NoPath /\ valid = FALSE
    /\ worktree_path = NoPath /\ texit = None /\ callLog = <<>>

\* Any filesystem and registry; the state of the run holds no path or the canonical one.
TreeInit ==
    /\ tmode \in {"main", "calls"}
    /\ tpc = IF tmode = "main" THEN "start" ELSE "calls"
    /\ t_adw_id \in TreeIds
    /\ dirs \in SUBSET TreePaths
    /\ registry \in SUBSET TreePaths
    /\ branch_exists \in BOOLEAN
    /\ state_worktree_path \in {NoPath, TreePath(t_adw_id)}
    /\ valid = FALSE
    /\ worktree_path = NoPath
    /\ texit = None
    /\ callLog = <<>>

\* The record of one call in callLog.
CallRecord(op, existed, fetch, add, attach, cmds, path, error, ok, d0, r0, d1, r1) ==
    [op |-> op, existed |-> existed, fetch |-> fetch, add |-> add, attach |-> attach,
     cmds |-> cmds, path |-> path, error |-> error, ok |-> ok,
     dirs_before |-> d0, registry_before |-> r0, dirs_after |-> d1, registry_after |-> r1]

\* What git worktree add -b can do: create the worktree (the branch is new and the
\* path is not registered), fail because the branch already exists, or fail otherwise.
AddOutcomes(path) ==
    {"error"}
    \cup (IF branch_exists THEN {"already_exists"} ELSE {})
    \cup (IF ~branch_exists /\ path \notin registry THEN {"ok"} ELSE {})

\* What git worktree add on the existing branch can do.
AttachOutcomes(path) == {"error"} \cup (IF path \notin registry THEN {"ok"} ELSE {})

\* Lines 11-50: create_worktree(adw_id, branch_name); the call is appended to callLog.
create_worktree(id) ==
    LET path == TreePath(id) IN
    IF PathExists(path, dirs)
    THEN /\ callLog' = Append(callLog,
                CallRecord("create", TRUE, None, None, None, <<>>, path, NoError, TRUE,
                           dirs, registry, dirs, registry))
         /\ UNCHANGED <<dirs, registry, branch_exists>>
    ELSE \E fetch \in {"ok", "failed"}, add \in AddOutcomes(path) :
         \E attach \in IF add # "ok" /\ NeedsFallback(add) THEN AttachOutcomes(path)
                       ELSE {None} :
            LET cmds == <<"fetch", "add -b">>
                          \o (IF attach # None THEN <<"add">> ELSE <<>>)
                created == add = "ok" \/ attach = "ok"
                d1 == IF created THEN dirs \cup {path} ELSE dirs
                r1 == IF created THEN registry \cup {path} ELSE registry
            IN  /\ dirs' = d1
                /\ registry' = r1
                /\ branch_exists' = (branch_exists \/ created)
                /\ callLog' = Append(callLog,
                      CallRecord("create", FALSE, fetch, add, attach, cmds,
                                 IF created THEN path ELSE NoPath,
                                 IF created THEN NoError
                                 ELSE <<"Failed to create worktree">>,
                                 created, dirs, registry, d1, r1))

\* Lines 77-94: remove_worktree(adw_id); the call is appended to callLog.
remove_worktree(id) ==
    LET path == TreePath(id) IN
    \E git \in {"error"} \cup (IF path \in registry /\ path \in dirs THEN {"ok"} ELSE {}) :
       LET d_git == IF git = "ok" THEN dirs \ {path} ELSE dirs
           r1 == IF git = "ok" THEN registry \ {path} ELSE registry
           manual == NeedsManualRemoval(git = "ok") /\ PathExists(path, d_git)
       IN  \E rm \in IF manual THEN {"ok", "raises"} ELSE {None} :
              LET d1 == IF rm = "ok" THEN d_git \ {path} ELSE d_git IN
              /\ dirs' = d1
              /\ registry' = r1
              /\ UNCHANGED branch_exists
              /\ callLog' = Append(callLog,
                    CallRecord("remove", PathExists(path, dirs), None, git, rm,
                               <<"remove --force">> \o (IF manual THEN <<"rmtree">> ELSE <<>>),
                               path,
                               IF rm = "raises"
                               THEN <<"Failed to remove worktree: stderr",
                                      "manual cleanup failed: e">>
                               ELSE NoError,
                               rm # "raises", dirs, registry, d1, r1))

\* Lines 465-480: main validates the worktree of the state.
TreeValidate ==
    /\ tpc = "start"
    /\ valid' = validate_worktree(state_worktree_path, dirs, registry).valid
    /\ worktree_path' = IF valid' THEN state_worktree_path ELSE NoPath
    /\ tpc' = "prepare"
    /\ UNCHANGED <<tmode, t_adw_id, dirs, registry, branch_exists, state_worktree_path,
                   texit, callLog>>

\* Lines 482-509: issue, classification and branch name; an error ends the run.
TreePrepare ==
    /\ tpc = "prepare"
    /\ \E ok \in BOOLEAN :
          IF ok THEN tpc' = "create" /\ UNCHANGED texit
          ELSE tpc' = "exit" /\ texit' = 1
    /\ UNCHANGED <<tmode, t_adw_id, dirs, registry, branch_exists, state_worktree_path,
                   valid, worktree_path, callLog>>

\* Lines 511-520: the worktree is created if the state had no valid one.
TreeCreate ==
    /\ tpc = "create"
    /\ IF valid
       THEN /\ tpc' = "ready"
            /\ UNCHANGED <<dirs, registry, branch_exists, state_worktree_path,
                           worktree_path, texit, callLog>>
       ELSE /\ create_worktree(t_adw_id)
            /\ LET r == callLog'[Len(callLog')] IN
               IF r.error # NoError
               THEN /\ tpc' = "exit"
                    /\ texit' = 1
                    /\ worktree_path' = NoPath
                    /\ UNCHANGED state_worktree_path
               ELSE /\ worktree_path' = r.path
                    /\ state_worktree_path' = r.path
                    /\ tpc' = "ready"
                    /\ UNCHANGED texit
    /\ UNCHANGED <<tmode, t_adw_id, valid>>

\* A call of create_worktree for the run.
CallCreate ==
    /\ tpc = "calls"
    /\ Len(callLog) < MaxCalls
    /\ create_worktree(t_adw_id)
    /\ UNCHANGED <<tmode, tpc, t_adw_id, state_worktree_path, valid, worktree_path, texit>>

\* A call of remove_worktree for the run.
CallRemove ==
    /\ tpc = "calls"
    /\ Len(callLog) < MaxCalls
    /\ remove_worktree(t_adw_id)
    /\ UNCHANGED <<tmode, tpc, t_adw_id, state_worktree_path, valid, worktree_path, texit>>

\* A call of validate_worktree on the state of the run.
CallValidate ==
    /\ tpc = "calls"
    /\ Len(callLog) < MaxCalls
    /\ LET r == validate_worktree(state_worktree_path, dirs, registry) IN
       callLog' = Append(callLog,
          CallRecord("validate", PathExists(state_worktree_path, dirs), None, None, None,
                     <<"list">>, r.path, <<r.msg>>, r.valid, dirs, registry, dirs, registry))
    /\ UNCHANGED <<tmode, tpc, t_adw_id, dirs, registry, branch_exists,
                   state_worktree_path, valid, worktree_path, texit>>

(***************************************************************************)
(* Part 5.  agent.py: truncate_output (lines 73-109).                      *)
(*                                                                         *)
(* A text is a sequence of characters; positions are Python's, from 0.     *)
(* An argument of truncate_output is a plain text, or a stream of lines    *)
(* each of which is a record of type result, assistant or system, or a     *)
(* line that is not a record.  The text of a record is a plain text.      *)
(***************************************************************************)

\* Longest plain text, and longest stream, truncate_output is given in the model.
MaxTextLen == 64
MaxLines == 3

NL == "\n"
SP == " "

Max2(a, b) == IF a > b THEN a ELSE b
Min2(a, b) == IF a < b THEN a ELSE b

\* Python's normalisation of a slice index against a length.
PyIndex(i, n) == IF i < 0 THEN Max2(i + n, 0) ELSE Min2(i, n)

\* text.rfind(ch, start, end): the highest position in [start, end) holding ch, or -1.
RFind(text, ch, start, end) ==
    LET n == Len(text)
        hits == {i \in PyIndex(start, n) .. (PyIndex(end, n) - 1) : text[i + 1] = ch}
    IN  IF hits = {} THEN -1 ELSE CHOOSE i \in hits : \A j \in hits : j <= i

\* text[:k]
PySliceTo(text, k) == SubSeq(text, 1, PyIndex(k, Len(text)))

\* The default suffix, "... (truncated)" (line 74).
DefaultSuffix ==
    <<".", ".", ".", SP, "(", "t", "r", "u", "n", "c", "a", "t", "e", "d", ")">>

\* The lookback windows for a line break (line 101) and a space (line 105).
NewlineWindow == 50
SpaceWindow == 20

\* Lines 96-109: a plain text is returned whole or cut.
TruncateText(text, max_length, suffix) ==
    IF Len(text) <= max_length THEN text
    ELSE LET truncate_at == max_length - Len(suffix)
             newline_pos == RFind(text, NL, truncate_at - NewlineWindow, truncate_at)
             space_pos == RFind(text, SP, truncate_at - SpaceWindow, truncate_at)
         IN  IF newline_pos > 0 THEN PySliceTo(text, newline_pos) \o suffix
             ELSE IF space_pos > 0 THEN PySliceTo(text, space_pos) \o suffix
             ELSE PySliceTo(text, truncate_at) \o suffix

\* The lines of a stream: a record starts with {"type": and a line that is not a
\* record does not.
IsRecord(line) == line.type \in {"result", "assistant", "system"}

\* json.dumps writes a line break of a text as the two characters \ and n.
RECURSIVE Escape(_)
Escape(text) ==
    IF text = <<>> THEN <<>>
    ELSE (IF Head(text) = NL THEN <<"\\", "n">> ELSE <<Head(text)>>) \o Escape(Tail(text))

\* The characters of one line: the record's text escaped, between the characters
\* that stand for the rest of the record.
RawLine(line) ==
    CASE line.type = "result" -> <<"{", "r">> \o Escape(line.text) \o <<"}">>
      [] line.type = "assistant" -> <<"{", "a">> \o Escape(line.text) \o <<"}">>
      [] line.type = "system" -> <<"{", "s", "}">>
      [] OTHER -> <<"#">>

\* The characters of a stream: its lines joined by line breaks.
RECURSIVE RawStream(_)
RawStream(lines) ==
    IF lines = <<>> THEN <<>>
    ELSE IF Len(lines) = 1 THEN RawLine(lines[1])
    ELSE RawLine(Head(lines)) \o <<NL>> \o RawStream(Tail(lines))

\* The characters of an argument.
Raw(output) == IF output.kind = "text" THEN output.chars ELSE RawStream(output.lines)

\* Line 77: the argument starts with {"type": and a later line starts with it too.
LooksLikeJsonl(output) ==
    /\ output.kind = "stream"
    /\ Len(output.lines) >= 2
    /\ IsRecord(output.lines[1])
    /\ \E i \in 2 .. Len(output.lines) : IsRecord(output.lines[i])

\* Lines 83-90: the text a line gives, <<>> when it gives none.
LineText(line) == IF line.type \in {"result", "assistant"} THEN line.text ELSE <<>>

\* Lines 79-92: the text of the last line that gives one, <<>> when there is none.
RECURSIVE LastLineText(_)
LastLineText(lines) ==
    IF lines = <<>> THEN <<>>
    ELSE IF LineText(lines[Len(lines)]) # <<>> THEN LineText(lines[Len(lines)])
    ELSE LastLineText(SubSeq(lines, 1, Len(lines) - 1))

\* The decimal digits of a natural number.
RECURSIVE Digits(_)
Digits(n) ==
    LET d == <<"0", "1", "2", "3", "4", "5", "6", "7", "8", "9">>[(n % 10) + 1]
    IN  IF n < 10 THEN <<d>> ELSE Digits(n \div 10) \o <<d>>

\* Line 94: "[JSONL output with N messages]".
JsonlSummary(n) ==
    <<"[", "J", "S", "O", "N", "L", SP, "o", "u", "t", "p", "u", "t", SP,
      "w", "i", "t", "h", SP>>
    \o Digits(n)
    \o <<SP, "m", "e", "s", "s", "a", "g", "e", "s", "]">>

\* truncate_output(output, max_length, suffix).
truncate_output(output, max_length, suffix) ==
    IF LooksLikeJsonl(output)
    THEN IF LastLineText(output.lines) # <<>>
         THEN TruncateText(LastLineText(output.lines), max_length, suffix)
         ELSE JsonlSummary(Len(output.lines)) \o suffix
    ELSE TruncateText(Raw(output), max_length, suffix)

\* A plain text of n characters with a line break at nl and a space at sp (-1: none).
MarkedText(n, nl, sp) ==
    [i \in 1 .. n |-> IF i - 1 = nl THEN NL ELSE IF i - 1 = sp THEN SP ELSE "x"]

\* Where the plain texts of the model have their line break and their space.
Marks == {-1, 0, 1, 5, 12, 16, 30, 36, 50, 56}

PlainTexts ==
    {MarkedText(n, nl, sp) :
        n \in 0 .. MaxTextLen, nl \in {m \in Marks : m < MaxTextLen},
        sp \in {m \in Marks : m < MaxTextLen}}

\* The texts of the records of the model.
RecordTexts == {<<>>, <<"R">>, MarkedText(30, 12, 16)}

StreamLines ==
    [type : {"result", "assistant"}, text : RecordTexts]
    \cup [type : {"system", "garbage"}]

RECURSIVE SeqsUpTo(_, _)
SeqsUpTo(S, n) ==
    IF n = 0 THEN {<<>>}
    ELSE LET shorter == SeqsUpTo(S, n - 1)
         IN  shorter \cup {Append(q, x) : q \in {r \in shorter : Len(r) = n - 1}, x \in S}

Streams == SeqsUpTo(StreamLines, MaxLines) \ {<<>>}

\* The arguments of the model.
TruncInputs ==
    [kind : {"text"}, chars : PlainTexts] \cup [kind : {"stream"}, lines : Streams]
MaxLengths == {4, 16, 20, 44, 60, 500}
Suffixes == {<<".", ".", ".">>, DefaultSuffix}

VARIABLES
    tr_pc,          \* idle, call, done
    tr_output,      \* the argument output
    tr_max_length,  \* the argument max_length
    tr_suffix,      \* the argument suffix
    tr_returned     \* the text returned

truncVars == <<tr_pc, tr_output, tr_max_length, tr_suffix, tr_returned>>

TruncIdle ==
    /\ tr_pc = "idle" /\ tr_output = [kind |-> "text", chars |-> <<>>]
    /\ tr_max_length = 500 /\ tr_suffix = DefaultSuffix /\ tr_returned = <<>>

\* A call truncate_output(output, max_length, suffix).
TruncInit ==
    /\ tr_pc = "call"
    /\ tr_output \in TruncInputs
    /\ tr_max_length \in MaxLengths
    /\ tr_suffix \in Suffixes
    /\ tr_returned = <<>>

\* The call returns.
Truncate ==
    /\ tr_pc = "call"
    /\ tr_returned' = truncate_output(tr_output, tr_max_length, tr_suffix)
    /\ tr_pc' = "done"
    /\ UNCHANGED <<tr_output, tr_max_length, tr_suffix>>

(***************************************************************************)
(* Part 6.  The workflow state (ADWState) and its use by main              *)
(* (adw_ralph_iso.py lines 444-750).  The fields are those of ADWStateData *)
(* (data_types.py); load, update, save and append_adw_id are as section    *)
(* 4.3 and section 6 of the specification describe them.  An optional      *)
(* value is <<>> (None) or <<v>>.                                          *)
(***************************************************************************)

\* Longest run history persisted before the runs of the model start.
MaxHistory == 1

\* The name main saves the state under.
WorkflowName == "adw_ralph_iso"

\* The fields of the persisted record (ADWStateData).
ADWStateDataFields_NoWorktreePath ==
    {"adw_id", "issue_number", "branch_name", "plan_file", "issue_class",
     "backend_port", "frontend_port", "model_set", "all_adws"}
ADWStateDataFields ==
    {"adw_id", "issue_number", "branch_name", "plan_file", "issue_class",
     "worktree_path", "backend_port", "frontend_port", "model_set", "all_adws"}

\* The defaults of ADWStateData: None, but "base" for model_set and [] for all_adws.
ADWStateDataDefault(f) == IF f = "model_set" THEN <<"base">> ELSE <<>>

\* The fields of the state main and the agent module read and write.
StateFields ==
    {"adw_id", "issue_number", "branch_name", "plan_file", "issue_class",
     "worktree_path", "backend_port", "frontend_port", "model_set", "all_adws"}

\* ADWState(adw_id) followed by update(adw_id=adw_id): the state of a load miss.
NewState(run_id) ==
    [f \in StateFields |-> IF f = "adw_id" THEN <<run_id>> ELSE ADWStateDataDefault(f)]

\* The record written for a state, and the state read from a record.
Persist(data) == [f \in ADWStateDataFields |-> data[f]]
Restore(record) ==
    [f \in StateFields |->
        IF f \in DOMAIN record THEN record[f] ELSE ADWStateDataDefault(f)]

\* load(run_id): the persisted state, or none.
load(store, run_id) ==
    IF store[run_id] = Absent THEN Absent ELSE Restore(store[run_id])

\* update(fields): the in-memory state with the given fields replaced.
update(data, fields) ==
    [f \in DOMAIN data |-> IF f \in DOMAIN fields THEN fields[f] ELSE data[f]]

\* save(workflow_name): the name is appended to the run history, then the state is
\* written as a whole.
save(data, workflow_name) == [data EXCEPT !.all_adws = Append(@, workflow_name)]

\* append_adw_id(workflow_name) records the workflow in the run history: the list is
\* extended, or left as it is.
append_adw_id(data, workflow_name) ==
    {data, [data EXCEPT !.all_adws = Append(@, workflow_name)]}

\* The processes that run main, and the run ids they are started with.
Procs == {1, 2}
StateRunIds == {"a", "b"}

\* The stages of main that update the state, in order: the ports and the worktree
\* path are set only when the worktree of the state is not valid.
StagesOf(worktree_valid) ==
    IF worktree_valid
    THEN <<"issue", "class", "branch", "plan", "final">>
    ELSE <<"ports", "issue", "class", "branch", "worktree", "plan", "final">>

\* The fields a stage updates and the values process p gives them.
StageUpdate_RewritesId(stage, p) ==
    IF stage = "issue" THEN [issue_number |-> <<p>>, adw_id |-> <<"other">>]
    ELSE IF stage = "final" THEN <<>>
    ELSE [issue_class |-> <<p>>]
StageUpdate(stage, p) ==
    CASE stage = "ports" -> [backend_port |-> <<9100 + p>>, frontend_port |-> <<9200 + p>>]
      [] stage = "issue" -> [issue_number |-> <<p>>]
      [] stage = "class" -> [issue_class |-> <<p>>]
      [] stage = "branch" -> [branch_name |-> <<p>>]
      [] stage = "worktree" -> [worktree_path |-> <<p>>]
      [] stage = "plan" -> [plan_file |-> <<"IMPLEMENTATION_PLAN.md">>]
      [] OTHER -> <<>>

\* Every stage saves the state after its update (lines 479, 485, 500, 509, 519, 569,
\* 750).
StageSaves_NotAfterPlan(stage) == stage # "plan"
StageSaves(stage) == TRUE

\* main loads the state once, at line 444, and never again before a save.
ReloadsBeforeSave_Always(stage) == TRUE
ReloadsBeforeSave(stage) == FALSE

\* A record persisted by an earlier run: h entries of history, with or without a
\* worktree.
PriorRecord(run_id, h, with_worktree) ==
    Persist([f \in StateFields |->
        CASE f = "adw_id" -> <<run_id>>
          [] f = "all_adws" -> [i \in 1 .. h |-> WorkflowName]
          [] f = "model_set" -> <<"base">>
          [] f = "plan_file" -> <<"IMPLEMENTATION_PLAN.md">>
          [] f = "worktree_path" -> IF with_worktree THEN <<0>> ELSE <<>>
          [] f \in {"backend_port", "frontend_port"} ->
                IF with_worktree THEN <<9100>> ELSE <<>>
          [] OTHER -> <<0>>])

PriorRecords(run_id) ==
    {Absent} \cup {PriorRecord(run_id, h, w) : h \in 0 .. MaxHistory, w \in BOOLEAN}

VARIABLES
    st_store,       \* the persisted record of each run id, or Absent
    st_pc,          \* where each process is: idle, load, append, validate, stage,
                    \* done, exit
    st_run,         \* the run id of each process
    st_mem,         \* the in-memory state of each process
    st_valid,       \* whether the process found a valid worktree in its state
    st_stage,       \* the index of the next stage of the process
    st_loaded,      \* history: the in-memory state right after load / creation
    st_written,     \* history: the fields the process has updated
    st_saves,       \* history: how often the process has saved
    st_stages_run,  \* history: how many stages the process has run
    st_appended,    \* history: how many entries append_adw_id added
    st_last_saved,  \* history: the in-memory state at the last save of the process
    st_last_writer  \* history: the process that wrote the record last (0: none)

stateVars ==
    <<st_store, st_pc, st_run, st_mem, st_valid, st_stage, st_loaded, st_written,
      st_saves, st_stages_run, st_appended, st_last_saved, st_last_writer>>

StateIdle ==
    /\ st_store = [id \in StateRunIds |-> Absent]
    /\ st_pc = [p \in Procs |-> "idle"]
    /\ st_run = [p \in Procs |-> "a"]
    /\ st_mem = [p \in Procs |-> Absent]
    /\ st_valid = [p \in Procs |-> FALSE]
    /\ st_stage = [p \in Procs |-> 1]
    /\ st_loaded = [p \in Procs |-> Absent]
    /\ st_written = [p \in Procs |-> {}]
    /\ st_saves = [p \in Procs |-> 0]
    /\ st_stages_run = [p \in Procs |-> 0]
    /\ st_appended = [p \in Procs |-> 0]
    /\ st_last_saved = [p \in Procs |-> Absent]
    /\ st_last_writer = [id \in StateRunIds |-> 0]

\* Two processes start main; the second runs under the id of the first or another.
\* An id no process runs under has no record.
StateInit ==
    /\ st_run \in {[p \in Procs |-> "a"], [p \in Procs |-> IF p = 1 THEN "a" ELSE "b"]}
    /\ st_store \in [StateRunIds -> UNION {PriorRecords(id) : id \in StateRunIds}]
    /\ \A id \in StateRunIds :
          /\ st_store[id] \in PriorRecords(id)
          /\ (\A p \in Procs : st_run[p] # id) => st_store[id] = Absent
    /\ st_pc = [p \in Procs |-> "load"]
    /\ st_mem = [p \in Procs |-> Absent]
    /\ st_valid = [p \in Procs |-> FALSE]
    /\ st_stage = [p \in Procs |-> 1]
    /\ st_loaded = [p \in Procs |-> Absent]
    /\ st_written = [p \in Procs |-> {}]
    /\ st_saves = [p \in Procs |-> 0]
    /\ st_stages_run = [p \in Procs |-> 0]
    /\ st_appended = [p \in Procs |-> 0]
    /\ st_last_saved = [p \in Procs |-> Absent]
    /\ st_last_writer = [id \in StateRunIds |-> 0]

\* Lines 449-450: adw_id is assigned when the state has none.
EnsureAdwId(data, run_id) ==
    IF data.adw_id = <<>> THEN update(data, [adw_id |-> <<run_id>>]) ELSE data

\* Lines 444-450: the state is loaded, or created when there is none (the new state
\* object may or may not hold the id it was made for), and adw_id is ensured.
MainLoad(p) ==
    /\ st_pc[p] = "load"
    /\ \E created \in {NewState(st_run[p]), [NewState(st_run[p]) EXCEPT !.adw_id = <<>>]} :
          LET found == load(st_store, st_run[p])
              data == EnsureAdwId(IF found = Absent THEN created ELSE found, st_run[p])
          IN  /\ st_mem' = [st_mem EXCEPT ![p] = data]
              /\ st_loaded' = [st_loaded EXCEPT ![p] = data]
    /\ st_pc' = [st_pc EXCEPT ![p] = "append"]
    /\ UNCHANGED <<st_store, st_run, st_valid, st_stage, st_written, st_saves,
                   st_stages_run, st_appended, st_last_saved, st_last_writer>>

\* Line 452: state.append_adw_id("adw_ralph_iso").
MainAppendAdwId(p) ==
    /\ st_pc[p] = "append"
    /\ \E data \in append_adw_id(st_mem[p], WorkflowName) :
          /\ st_mem' = [st_mem EXCEPT ![p] = data]
          /\ st_appended' =
                [st_appended EXCEPT ![p] = Len(data.all_adws) - Len(st_mem[p].all_adws)]
    /\ st_pc' = [st_pc EXCEPT ![p] = "validate"]
    /\ UNCHANGED <<st_store, st_run, st_valid, st_stage, st_loaded, st_written, st_saves,
                   st_stages_run, st_last_saved, st_last_writer>>

\* Lines 465-466: a state without worktree_path has no valid worktree.
MainValidate(p) ==
    /\ st_pc[p] = "validate"
    /\ \E ok \in (IF st_mem[p].worktree_path = <<>> THEN {FALSE} ELSE BOOLEAN) :
          st_valid' = [st_valid EXCEPT ![p] = ok]
    /\ st_pc' = [st_pc EXCEPT ![p] = "stage"]
    /\ UNCHANGED <<st_store, st_run, st_mem, st_stage, st_loaded, st_written, st_saves,
                   st_stages_run, st_appended, st_last_saved, st_last_writer>>

\* One stage of main: state.update(...) and state.save("adw_ralph_iso").
MainStage(p) ==
    /\ st_pc[p] = "stage"
    /\ LET stages == StagesOf(st_valid[p])
           stage == stages[st_stage[p]]
           id == st_run[p]
           base == IF ReloadsBeforeSave(stage) /\ st_store[id] # Absent
                   THEN load(st_store, id) ELSE st_mem[p]
           updated == update(base, StageUpdate(stage, p))
           saved == save(updated, WorkflowName)
       IN  /\ st_written' = [st_written EXCEPT ![p] = @ \cup DOMAIN StageUpdate(stage, p)]
           /\ st_stages_run' = [st_stages_run EXCEPT ![p] = @ + 1]
           /\ st_stage' = [st_stage EXCEPT ![p] = @ + 1]
           /\ st_pc' = [st_pc EXCEPT ![p] =
                           IF st_stage[p] = Len(stages) THEN "done" ELSE "stage"]
           /\ IF StageSaves(stage)
              THEN /\ st_mem' = [st_mem EXCEPT ![p] = saved]
                   /\ st_store' = [st_store EXCEPT ![id] = Persist(saved)]
                   /\ st_saves' = [st_saves EXCEPT ![p] = @ + 1]
                   /\ st_last_saved' = [st_last_saved EXCEPT ![p] = saved]
                   /\ st_last_writer' = [st_last_writer EXCEPT ![id] = p]
              ELSE /\ st_mem' = [st_mem EXCEPT ![p] = updated]
                   /\ UNCHANGED <<st_store, st_saves, st_last_saved, st_last_writer>>
    /\ UNCHANGED <<st_run, st_valid, st_loaded, st_appended>>

\* main exits with status 1: the repository URL cannot be read (line 463), or a stage
\* fails (lines 497-566).
MainExit(p) ==
    /\ st_pc[p] \in {"validate", "stage"}
    /\ st_pc' = [st_pc EXCEPT ![p] = "exit"]
    /\ UNCHANGED <<st_store, st_run, st_mem, st_valid, st_stage, st_loaded, st_written,
                   st_saves, st_stages_run, st_appended, st_last_saved, st_last_writer>>

(***************************************************************************)
(* Part 7.  agent.py: the response of prompt_claude_code for an agent that *)
(* exits 0, from the lines of its output file (parse_jsonl_output, lines   *)
(* 125-141, and lines 264-300).  The text of a record is a plain text.     *)
(***************************************************************************)

\* The length above which an error text is shortened, and the budget it is given
\* (lines 284-285).
ErrorTextThreshold == 1000
ErrorTextBudget == 800

\* parse_jsonl_output found no result record (Python's None).
NoResultMessage == [type |-> "none"]

\* The lines of an output file: result records, other records, blank lines, and lines
\* json.loads or message.get does not accept.
IsGarbage(line) == line.type = "garbage"

\* The index of the last result record among the lines, 0 when there is none.
LastResultIndex(lines) ==
    LET results == {i \in DOMAIN lines : lines[i].type = "result"}
    IN  IF results = {} THEN 0 ELSE CHOOSE i \in results : \A j \in results : j <= i

\* parse_jsonl_output: every non-blank line is decoded, then the last record of type
\* result is looked for; any exception gives no result.
parse_jsonl_output_SkipsBadLines(lines) ==
    IF LastResultIndex(lines) = 0 THEN NoResultMessage
    ELSE lines[LastResultIndex(lines)]
parse_jsonl_output(lines) ==
    IF \E i \in DOMAIN lines : IsGarbage(lines[i]) THEN NoResultMessage
    ELSE IF LastResultIndex(lines) = 0 THEN NoResultMessage
    ELSE lines[LastResultIndex(lines)]

\* Line 284: an error text above the threshold is shortened.
NeedsTruncation_Never(is_error, text) == FALSE
NeedsTruncation(is_error, text) == is_error /\ Len(text) > ErrorTextThreshold

\* Lines 282-285: the result text of the response.
ResultText(result_message) ==
    IF NeedsTruncation(result_message.is_error, result_message.text)
    THEN truncate_output([kind |-> "text", chars |-> result_message.text],
                         ErrorTextBudget, DefaultSuffix)
    ELSE result_message.text

\* Lines 268-300: the response for what parse_jsonl_output returned.
ResultResponse(result_message) ==
    IF result_message = NoResultMessage THEN NoResultResponse
    ELSE IF result_message.subtype = "error_during_execution"
    THEN ErrorDuringExecutionResponse(result_message)
    ELSE AgentPromptResponse(ResultText(result_message), ~result_message.is_error,
                             result_message.session_id, RC_NONE)

\* The result records of the model with a short text, and the lines of the short
\* files.
ShortResults ==
    [type : {"result"}, is_error : BOOLEAN,
     subtype : {"success", "error_during_execution"},
     text : {<<"R">>, <<"S">>}, session_id : {"s1"}]
FileLines == ShortResults \cup [type : {"system", "blank", "garbage"}]

\* The lengths of the long texts, and where they have a line break and a space.
LongLens == {790, 800, 801, 999, 1000, 1001, 1002, 1040}
LongMarks == {-1, 700, 750, 770, 784, 790}

LongResults ==
    {[type |-> "result", is_error |-> err, subtype |-> "success",
      text |-> MarkedText(n, nl, sp), session_id |-> "s1"] :
        err \in BOOLEAN, n \in LongLens, nl \in LongMarks, sp \in LongMarks}

\* The output files of the model.
ResultFiles ==
    SeqsUpTo(FileLines, MaxLines) \cup {<<r>> : r \in LongResults}

VARIABLES
    rs_pc,          \* idle, exited (the agent has exited with status 0), done
    rs_file,        \* the lines of the output file
    rs_message,     \* what parse_jsonl_output returned
    rs_response     \* the response of prompt_claude_code

resultVars == <<rs_pc, rs_file, rs_message, rs_response>>

ResultIdle ==
    /\ rs_pc = "idle" /\ rs_file = <<>> /\ rs_message = NoResultMessage
    /\ rs_response = NoResponse

\* The agent has exited with status 0 and left its output file.
ResultInit ==
    /\ rs_pc = "exited"
    /\ rs_file \in ResultFiles
    /\ rs_message = NoResultMessage
    /\ rs_response = NoResponse

\* Lines 264-300.
Respond ==
    /\ rs_pc = "exited"
    /\ rs_message' = parse_jsonl_output(rs_file)
    /\ rs_response' = ResultResponse(rs_message')
    /\ rs_pc' = "done"
    /\ UNCHANGED rs_file

(***************************************************************************)
(* Part 8.  adw_ralph_iso.py: main from the set-up of the run logger to    *)
(* the first build pass (lines 453-569), with the worktree, the ports and  *)
(* the port configuration file .ports.env.                                 *)
(***************************************************************************)

\* The run identifiers of this part (slots 10 and 5).
SetupIds == {<<"a">>, <<"z">>}

\* The path of the run's worktree.
SetupPath == "trees/id"

\* Both ports of slot i can be bound (worktree_ops.py, line 160).
PairFree(i, busy) ==
    (BACKEND_BASE + i) \notin busy /\ (FRONTEND_BASE + i) \notin busy

\* worktree_ops.py, lines 149-162: the offsets whose pair is free; when there is none
\* RuntimeError is raised.
FreeOffsets(id, busy) ==
    {off \in 0 .. (MAX_ATTEMPTS - 1) :
        PairFree(SlotIndex(PortIndex(id, 0), off), busy)}

find_next_available_ports(id, busy) ==
    LET off == CHOOSE o \in FreeOffsets(id, busy) : \A o2 \in FreeOffsets(id, busy) : o <= o2
        i == SlotIndex(PortIndex(id, 0), off)
    IN  <<BACKEND_BASE + i, FRONTEND_BASE + i>>

\* Lines 473-475: the deterministic pair when both its ports are free, otherwise the
\* next free pair.
NeedsSearch(id, busy) ==
    ~(/\ get_ports_for_adw(id, 0)[1] \notin busy
      /\ get_ports_for_adw(id, 0)[2] \notin busy)

\* Line 467: a valid worktree is reused.
ReusesWorktree_Never(is_valid) == FALSE
ReusesWorktree(is_valid) == is_valid

\* The ports that are bound when main starts: none, one port of a slot, every backend
\* port, every backend port but one.
BusyChoices ==
    {{}, {BACKEND_BASE + 10}, {FRONTEND_BASE + 5},
     {BACKEND_BASE + i : i \in 0 .. (NumSlots - 1)},
     {BACKEND_BASE + i : i \in (0 .. (NumSlots - 1)) \ {4}}}

\* The fields of the state this part reads and writes, each absent (<<>>) or set.
SetupState(path, backend, frontend) ==
    [worktree_path |-> path, backend_port |-> backend, frontend_port |-> frontend]

\* The state and the worktree main finds: a new state without a worktree, or the state
\* of an earlier run with its worktree and the ports that run was given.
EarlierPorts == <<9103, 9203>>
FreshSetup == SetupState(<<>>, <<>>, <<>>)
EarlierSetup == SetupState(<<SetupPath>>, <<EarlierPorts[1]>>, <<EarlierPorts[2]>>)

\* The error diagnostics of lines 462-565.
SetupErrors ==
    {"Error getting repository URL", "Error classifying issue",
     "Error generating branch name", "Error creating worktree",
     "ralph/loop.sh not found in worktree", "Error generating spec",
     "Ralph planning failed", "IMPLEMENTATION_PLAN.md was not created"}

VARIABLES
    m_pc,           \* where main is: idle, repo, validate, ports, issue, classify,
                    \* branch, worktree, loop_script, spec, plan, build, exit, crashed
    m_id,           \* the run identifier
    m_busy,         \* the ports that are bound
    m_state,        \* the in-memory state
    m_saved,        \* the persisted state
    m_loaded,       \* history: the state as loaded
    m_valid,        \* line 466
    m_local,        \* the locals worktree_path, backend_port, frontend_port
    m_tree,         \* whether the worktree exists
    m_ports_env,    \* the ports in .ports.env of the worktree, or NoPorts
    m_env_before,   \* history: .ports.env when main started
    m_log,          \* the diagnostics written with logger.error
    m_status,       \* the exit status of the process: <<>> while it runs
    m_trace         \* history: the operations main has invoked

mainVars ==
    <<m_pc, m_id, m_busy, m_state, m_saved, m_loaded, m_valid, m_local, m_tree,
      m_ports_env, m_env_before, m_log, m_status, m_trace>>

MainIdle ==
    /\ m_pc = "idle" /\ m_id = <<>> /\ m_busy = {}
    /\ m_state = FreshSetup /\ m_saved = FreshSetup /\ m_loaded = FreshSetup
    /\ m_valid = FALSE /\ m_local = FreshSetup /\ m_tree = FALSE
    /\ m_ports_env = NoPorts /\ m_env_before = NoPorts
    /\ m_log = <<>> /\ m_status = <<>> /\ m_trace = <<>>

\* main has loaded the state and set up the run logger (line 453).  An earlier run's
\* worktree may have been removed since.
MainInit ==
    /\ m_pc = "repo"
    /\ m_id \in SetupIds
    /\ m_busy \in BusyChoices
    /\ m_state \in {FreshSetup, EarlierSetup}
    /\ m_saved = m_state
    /\ m_loaded = m_state
    /\ m_valid = FALSE
    /\ m_local = FreshSetup
    /\ m_tree \in (IF m_state = FreshSetup THEN {FALSE} ELSE BOOLEAN)
    /\ m_ports_env = IF m_tree THEN EarlierPorts ELSE NoPorts
    /\ m_env_before = m_ports_env
    /\ m_log = <<>>
    /\ m_status = <<>>
    /\ m_trace = <<>>

\* logger.error(msg) and sys.exit(1).
LogAndExit(msg) ==
    /\ m_log' = Append(m_log, msg)
    /\ m_status' = <<1>>
    /\ m_pc' = "exit"

\* An exception nothing catches: the interpreter prints the traceback and ends with
\* status 1; nothing is written with the logger.
Uncaught ==
    /\ m_status' = <<1>>
    /\ m_pc' = "crashed"
    /\ UNCHANGED m_log

\* Lines 457-463.
SetupRepo ==
    /\ m_pc = "repo"
    /\ \E ok \in BOOLEAN :
          IF ok THEN m_pc' = "validate" /\ UNCHANGED <<m_log, m_status>>
          ELSE LogAndExit("Error getting repository URL")
    /\ m_trace' = Append(m_trace, "get_repo_url")
    /\ UNCHANGED <<m_id, m_busy, m_state, m_saved, m_loaded, m_valid, m_local, m_tree,
                   m_ports_env, m_env_before>>

\* Lines 466-471: the worktree of the state is validated; a valid one is reused with
\* the path and the ports of the state.
SetupValidate ==
    /\ m_pc = "validate"
    /\ m_valid' = (m_state.worktree_path # <<>> /\ m_tree)
    /\ IF ReusesWorktree(m_valid')
       THEN /\ m_local' = m_state
            /\ m_pc' = "issue"
       ELSE /\ m_pc' = "ports"
            /\ UNCHANGED m_local
    /\ m_trace' = Append(m_trace, "validate_worktree")
    /\ UNCHANGED <<m_id, m_busy, m_state, m_saved, m_loaded, m_tree, m_ports_env,
                   m_env_before, m_log, m_status>>

\* Lines 473-480: the ports are allocated, written to the state and saved.
SetupPorts ==
    /\ m_pc = "ports"
    /\ IF NeedsSearch(m_id, m_busy) /\ FreeOffsets(m_id, m_busy) = {}
       THEN /\ Uncaught
            /\ m_trace' = m_trace \o <<"is_port_available", "find_next_available_ports">>
            /\ UNCHANGED <<m_state, m_saved, m_local>>
       ELSE LET ports == IF NeedsSearch(m_id, m_busy)
                         THEN find_next_available_ports(m_id, m_busy)
                         ELSE get_ports_for_adw(m_id, 0)
                updated == [m_state EXCEPT !.backend_port = <<ports[1]>>,
                                           !.frontend_port = <<ports[2]>>]
            IN  /\ m_state' = updated
                /\ m_saved' = updated
                /\ m_local' = SetupState(<<>>, <<ports[1]>>, <<ports[2]>>)
                /\ m_trace' = m_trace
                      \o <<"is_port_available">>
                      \o (IF NeedsSearch(m_id, m_busy)
                          THEN <<"find_next_available_ports">> ELSE <<>>)
                      \o <<"save ports">>
                /\ m_pc' = "issue"
                /\ UNCHANGED <<m_log, m_status>>
    /\ UNCHANGED <<m_id, m_busy, m_loaded, m_valid, m_tree, m_ports_env, m_env_before>>

\* Lines 483-491.
SetupIssue ==
    /\ m_pc = "issue"
    /\ m_saved' = m_state
    /\ m_trace' = Append(m_trace, "fetch_issue")
    /\ m_pc' = "classify"
    /\ UNCHANGED <<m_id, m_busy, m_state, m_loaded, m_valid, m_local, m_tree, m_ports_env,
                   m_env_before, m_log, m_status>>

\* Lines 494-500.
SetupClassify ==
    /\ m_pc = "classify"
    /\ \E ok \in BOOLEAN :
          IF ok THEN m_pc' = "branch" /\ UNCHANGED <<m_log, m_status>>
          ELSE LogAndExit("Error classifying issue")
    /\ m_trace' = Append(m_trace, "classify_issue")
    /\ UNCHANGED <<m_id, m_busy, m_state, m_saved, m_loaded, m_valid, m_local, m_tree,
                   m_ports_env, m_env_before>>

\* Lines 503-509.
SetupBranch ==
    /\ m_pc = "branch"
    /\ \E ok \in BOOLEAN :
          IF ok THEN m_pc' = "worktree" /\ UNCHANGED <<m_log, m_status>>
          ELSE LogAndExit("Error generating branch name")
    /\ m_trace' = Append(m_trace, "generate_branch_name")
    /\ UNCHANGED <<m_id, m_busy, m_state, m_saved, m_loaded, m_valid, m_local, m_tree,
                   m_ports_env, m_env_before>>

\* Lines 512-520: unless the worktree is reused it is created, its path is saved and
\* setup_worktree_environment writes .ports.env (worktree_ops.py, lines 114-119).
SetupWorktree ==
    /\ m_pc = "worktree"
    /\ IF ReusesWorktree(m_valid)
       THEN /\ m_pc' = "loop_script"
            /\ UNCHANGED <<m_state, m_saved, m_local, m_tree, m_ports_env, m_log,
                           m_status, m_trace>>
       ELSE \E ok \in BOOLEAN :
               IF ok
               THEN /\ m_state' = [m_state EXCEPT !.worktree_path = <<SetupPath>>]
                    /\ m_saved' = m_state'
                    /\ m_local' = [m_local EXCEPT !.worktree_path = <<SetupPath>>]
                    /\ m_tree' = TRUE
                    /\ m_ports_env' = <<m_local.backend_port[1], m_local.frontend_port[1]>>
                    /\ m_trace' = m_trace \o <<"create_worktree", "save worktree_path",
                                               "setup_worktree_environment">>
                    /\ m_pc' = "loop_script"
                    /\ UNCHANGED <<m_log, m_status>>
               ELSE /\ LogAndExit("Error creating worktree")
                    /\ m_trace' = Append(m_trace, "create_worktree")
                    /\ UNCHANGED <<m_state, m_saved, m_local, m_tree, m_ports_env>>
    /\ UNCHANGED <<m_id, m_busy, m_loaded, m_valid, m_env_before>>

\* Lines 530-533.
SetupLoopScript ==
    /\ m_pc = "loop_script"
    /\ \E ok \in BOOLEAN :
          IF ok THEN m_pc' = "spec" /\ UNCHANGED <<m_log, m_status>>
          ELSE LogAndExit("ralph/loop.sh not found in worktree")
    /\ m_trace' = Append(m_trace, "copy_loop_script")
    /\ UNCHANGED <<m_id, m_busy, m_state, m_saved, m_loaded, m_valid, m_local, m_tree,
                   m_ports_env, m_env_before>>

\* Lines 536-541.
SetupSpec ==
    /\ m_pc = "spec"
    /\ \E ok \in BOOLEAN :
          IF ok THEN m_pc' = "plan" /\ UNCHANGED <<m_log, m_status>>
          ELSE LogAndExit("Error generating spec")
    /\ m_trace' = Append(m_trace, "generate_spec_from_issue")
    /\ UNCHANGED <<m_id, m_busy, m_state, m_saved, m_loaded, m_valid, m_local, m_tree,
                   m_ports_env, m_env_before>>

\* Lines 548-569: the planning phase and the check of its artifact.
SetupPlan ==
    /\ m_pc = "plan"
    /\ \E ok \in BOOLEAN, written \in BOOLEAN :
          IF ~ok THEN LogAndExit("Ralph planning failed")
          ELSE IF ~written THEN LogAndExit("IMPLEMENTATION_PLAN.md was not created")
          ELSE m_pc' = "build" /\ UNCHANGED <<m_log, m_status>>
    /\ m_trace' = Append(m_trace, "run_ralph_phase")
    /\ UNCHANGED <<m_id, m_busy, m_state, m_saved, m_loaded, m_valid, m_local, m_tree,
                   m_ports_env, m_env_before>>

(***************************************************************************)
(* Part 9.  adw_ralph_iso.py: main after the backpressure loop: review,    *)
(* screenshots, push, merge to main, completion report and the final save  *)
(* (lines 653-750).                                                        *)
(***************************************************************************)

\* The fields of ReviewResult the stages after the review read.
ReviewResult(ok, summary) == [success |-> ok, review_summary |-> summary]

\* No review has been made.
NoReview == [success |-> TRUE, review_summary |-> "none"]

\* What parse_json makes of the output of a successful review (line 240).
ParseOutcomes == {"unparseable", "parsed_passed", "parsed_issues"}

\* Lines 226-262: run_review, once execute_template has returned a response.
run_review(response, parsed) ==
    IF ~response.success THEN ReviewResult(FALSE, "Review failed: output[:500]")
    ELSE IF parsed = "unparseable" THEN ReviewResult(TRUE, "output[:500]")
    ELSE ReviewResult(parsed = "parsed_passed", "parsed summary")

\* What capture_screenshots meets (lines 171-208): the image directory cannot be made,
\* no capture script, a capture that works, exits non-zero, exceeds 180 seconds, or
\* cannot be launched.
CaptureOutcomes ==
    {"makedirs_raises", "no_script", "captured", "nonzero", "timeout", "launch_raises"}

\* Line 186 is outside the try block of lines 194-207.
CaptureRaises(o) == o = "makedirs_raises"

\* What merge_to_main meets (lines 334-407).
MergeOutcomes ==
    {"merged", "checkout_fails", "pull_fails", "merge_fails", "conflict_pr_merged",
     "conflict_pr_fails", "push_fails", "exception"}

\* Lines 334-407: merge_to_main returns (success, error).
merge_to_main(o) ==
    CASE o = "merged" -> <<TRUE, None>>
      [] o = "conflict_pr_merged" -> <<TRUE, None>>
      [] o = "checkout_fails" -> <<FALSE, "Failed to checkout main">>
      [] o = "pull_fails" -> <<FALSE, "Failed to pull main">>
      [] o = "merge_fails" -> <<FALSE, "Failed to merge">>
      [] o = "conflict_pr_fails" -> <<FALSE, "Merge conflicts could not be auto-resolved">>
      [] o = "push_fails" -> <<FALSE, "Failed to push">>
      [] o = "exception" -> <<FALSE, "str(e)">>

\* Line 747: the Shipped line of the completion report.
ShippedText(merged) == IF merged THEN "Yes" ELSE "PR created"

VARIABLES
    sh_pc,          \* idle, review, capture, finalize, merge, complete, done, crashed
                    \* (an exception nothing catches), blocked (a call that never
                    \* returns)
    sh_skip_review, \* line 427
    sh_agent,       \* history: what the review's agent did, or NoOutcome
    sh_review,      \* review_result, or NoReview
    sh_capture,     \* history: what capture_screenshots met, or None
    sh_merge,       \* what merge_to_main returned, or <<>>
    sh_report,      \* the Shipped line of the completion report, or <<>>
    sh_saved        \* whether the state save of line 750 was made

shipVars ==
    <<sh_pc, sh_skip_review, sh_agent, sh_review, sh_capture, sh_merge, sh_report,
      sh_saved>>

ShipIdle ==
    /\ sh_pc = "idle" /\ sh_skip_review = FALSE /\ sh_agent = NoOutcome
    /\ sh_review = NoReview /\ sh_capture = None /\ sh_merge = <<>>
    /\ sh_report = <<>> /\ sh_saved = FALSE

\* The backpressure loop has been left (line 653).
ShipInit ==
    /\ sh_pc = "review"
    /\ sh_skip_review \in BOOLEAN
    /\ sh_agent = NoOutcome
    /\ sh_review = NoReview
    /\ sh_capture = None
    /\ sh_merge = <<>>
    /\ sh_report = <<>>
    /\ sh_saved = FALSE

\* Lines 654-673: the review, unless --skip-review; without a spec file a default
\* result is taken; execute_template raises when the output directory cannot be made
\* (agent.py, line 341) or when prompt_claude_code raises, and does not return
\* when the agent never exits.
ShipReview ==
    /\ sh_pc = "review"
    /\ IF sh_skip_review
       THEN /\ sh_pc' = "finalize"
            /\ UNCHANGED <<sh_agent, sh_review>>
       ELSE \E spec_found \in BOOLEAN, dir_ok \in BOOLEAN,
               o \in AgentOutcomes, parsed \in ParseOutcomes :
               IF ~spec_found
               THEN /\ sh_review' = ReviewResult(TRUE, "No spec file found for detailed review")
                    /\ sh_pc' = "capture"
                    /\ UNCHANGED sh_agent
               ELSE IF ~dir_ok
               THEN /\ sh_pc' = "crashed"
                    /\ UNCHANGED <<sh_agent, sh_review>>
               ELSE /\ sh_agent' = o
                    /\ IF Raises(o) \/ Blocks(o)
                       THEN /\ sh_pc' = IF Raises(o) THEN "crashed" ELSE "blocked"
                            /\ UNCHANGED sh_review
                       ELSE /\ sh_review' = run_review(prompt_claude_code(o), parsed)
                            /\ sh_pc' = "capture"
    /\ UNCHANGED <<sh_skip_review, sh_capture, sh_merge, sh_report, sh_saved>>

\* Lines 675-707: the screenshots are captured and uploaded and the review is posted;
\* a capture that fails is only logged.
ShipCapture ==
    /\ sh_pc = "capture"
    /\ \E o \in CaptureOutcomes :
          /\ sh_capture' = o
          /\ sh_pc' = IF CaptureRaises(o) THEN "crashed" ELSE "finalize"
    /\ UNCHANGED <<sh_skip_review, sh_agent, sh_review, sh_merge, sh_report, sh_saved>>

\* Lines 709-715: finalize_git_operations returns nothing; its failures are logged.
ShipFinalize ==
    /\ sh_pc = "finalize"
    /\ sh_pc' = "merge"
    /\ UNCHANGED <<sh_skip_review, sh_agent, sh_review, sh_capture, sh_merge, sh_report,
                   sh_saved>>

\* Lines 717-736.
ShipMerge ==
    /\ sh_pc = "merge"
    /\ \E o \in MergeOutcomes : sh_merge' = merge_to_main(o)
    /\ sh_pc' = "complete"
    /\ UNCHANGED <<sh_skip_review, sh_agent, sh_review, sh_capture, sh_report, sh_saved>>

\* Lines 738-750: the completion report and the final save.
ShipComplete ==
    /\ sh_pc = "complete"
    /\ sh_report' = <<ShippedText(sh_merge[1])>>
    /\ sh_saved' = TRUE
    /\ sh_pc' = "done"
    /\ UNCHANGED <<sh_skip_review, sh_agent, sh_review, sh_capture, sh_merge>>

(***************************************************************************)
(* Specifications.                                                         *)
(***************************************************************************)

vars == <<retryVars, portVars, loopVars, treeVars, truncVars, stateVars, resultVars, mainVars, shipVars>>

InitRetry == RetryInit /\ PortsIdle /\ LoopIdle /\ TreeIdle /\ TruncIdle /\ StateIdle /\ ResultIdle /\ MainIdle /\ ShipIdle

NextRetry ==
    \/ RetryEnter /\ UNCHANGED <<portVars, loopVars, treeVars, truncVars, stateVars, resultVars, mainVars, shipVars>>
    \/ RetryAttempt /\ UNCHANGED <<portVars, loopVars, treeVars, truncVars, stateVars, resultVars, mainVars, shipVars>>
    \/ RetryFallThrough /\ UNCHANGED <<portVars, loopVars, treeVars, truncVars, stateVars, resultVars, mainVars, shipVars>>

SpecRetry == InitRetry /\ [][NextRetry]_vars

\* One run allocates its ports while the port namespace changes arbitrarily.
InitProbe == RetryIdle /\ PortsInit({1}, RunIds) /\ LoopIdle /\ TreeIdle /\ TruncIdle /\ StateIdle /\ ResultIdle /\ MainIdle /\ ShipIdle

NextProbe ==
    \/ MainGetPorts(1) /\ UNCHANGED <<retryVars, loopVars, treeVars, truncVars, stateVars, resultVars, mainVars, shipVars>>
    \/ MainProbeBackend(1) /\ UNCHANGED <<retryVars, loopVars, treeVars, truncVars, stateVars, resultVars, mainVars, shipVars>>
    \/ MainProbeFrontend(1) /\ UNCHANGED <<retryVars, loopVars, treeVars, truncVars, stateVars, resultVars, mainVars, shipVars>>
    \/ FindEnter(1) /\ UNCHANGED <<retryVars, loopVars, treeVars, truncVars, stateVars, resultVars, mainVars, shipVars>>
    \/ FindProbeBackend(1) /\ UNCHANGED <<retryVars, loopVars, treeVars, truncVars, stateVars, resultVars, mainVars, shipVars>>
    \/ FindProbeFrontend(1) /\ UNCHANGED <<retryVars, loopVars, treeVars, truncVars, stateVars, resultVars, mainVars, shipVars>>
    \/ EnvSet(1) /\ UNCHANGED <<retryVars, loopVars, treeVars, truncVars, stateVars, resultVars, mainVars, shipVars>>

SpecProbe == InitProbe /\ [][NextProbe]_vars

\* Two runs allocate their ports concurrently; the ports are bound by the runs'
\* own services only.
InitPorts == RetryIdle /\ PortsInit(Runs, PortRunIds) /\ LoopIdle /\ TreeIdle /\ TruncIdle /\ StateIdle /\ ResultIdle /\ MainIdle /\ ShipIdle

NextPorts ==
    \/ \E r \in Runs : MainGetPorts(r) /\ UNCHANGED <<retryVars, loopVars, treeVars, truncVars, stateVars, resultVars, mainVars, shipVars>>
    \/ \E r \in Runs : MainProbeBackend(r) /\ UNCHANGED <<retryVars, loopVars, treeVars, truncVars, stateVars, resultVars, mainVars, shipVars>>
    \/ \E r \in Runs : MainProbeFrontend(r) /\ UNCHANGED <<retryVars, loopVars, treeVars, truncVars, stateVars, resultVars, mainVars, shipVars>>
    \/ \E r \in Runs : FindEnter(r) /\ UNCHANGED <<retryVars, loopVars, treeVars, truncVars, stateVars, resultVars, mainVars, shipVars>>
    \/ \E r \in Runs : FindProbeBackend(r) /\ UNCHANGED <<retryVars, loopVars, treeVars, truncVars, stateVars, resultVars, mainVars, shipVars>>
    \/ \E r \in Runs : FindProbeFrontend(r) /\ UNCHANGED <<retryVars, loopVars, treeVars, truncVars, stateVars, resultVars, mainVars, shipVars>>
    \/ \E r \in Runs, p \in AllPorts : Listen(r, p) /\ UNCHANGED <<retryVars, loopVars, treeVars, truncVars, stateVars, resultVars, mainVars, shipVars>>
    \/ \E r \in Runs : RunEnd(r) /\ UNCHANGED <<retryVars, loopVars, treeVars, truncVars, stateVars, resultVars, mainVars, shipVars>>

SpecPorts == InitPorts /\ [][NextPorts]_vars

\* One run of main from the planning stage to the end of the backpressure loop.
InitLoop == RetryIdle /\ PortsIdle /\ LoopInit /\ TreeIdle /\ TruncIdle /\ StateIdle /\ ResultIdle /\ MainIdle /\ ShipIdle

NextLoop ==
    \/ CleanPlan /\ UNCHANGED <<retryVars, portVars, treeVars, truncVars, stateVars, resultVars, mainVars, shipVars>>
    \/ Plan /\ UNCHANGED <<retryVars, portVars, treeVars, truncVars, stateVars, resultVars, mainVars, shipVars>>
    \/ Build /\ UNCHANGED <<retryVars, portVars, treeVars, truncVars, stateVars, resultVars, mainVars, shipVars>>
    \/ Commit /\ UNCHANGED <<retryVars, portVars, treeVars, truncVars, stateVars, resultVars, mainVars, shipVars>>
    \/ Test /\ UNCHANGED <<retryVars, portVars, treeVars, truncVars, stateVars, resultVars, mainVars, shipVars>>
    \/ ReplanWrite /\ UNCHANGED <<retryVars, portVars, treeVars, truncVars, stateVars, resultVars, mainVars, shipVars>>
    \/ ReplanPlan /\ UNCHANGED <<retryVars, portVars, treeVars, truncVars, stateVars, resultVars, mainVars, shipVars>>
    \/ ReplanCleanup /\ UNCHANGED <<retryVars, portVars, treeVars, truncVars, stateVars, resultVars, mainVars, shipVars>>

SpecLoop == InitLoop /\ [][NextLoop]_vars

\* The worktree setup of main, or a sequence of library calls, for one run.
InitTree == RetryIdle /\ PortsIdle /\ LoopIdle /\ TreeInit /\ TruncIdle /\ StateIdle /\ ResultIdle /\ MainIdle /\ ShipIdle

NextTree ==
    \/ TreeValidate /\ UNCHANGED <<retryVars, portVars, loopVars, truncVars, stateVars, resultVars, mainVars, shipVars>>
    \/ TreePrepare /\ UNCHANGED <<retryVars, portVars, loopVars, truncVars, stateVars, resultVars, mainVars, shipVars>>
    \/ TreeCreate /\ UNCHANGED <<retryVars, portVars, loopVars, truncVars, stateVars, resultVars, mainVars, shipVars>>
    \/ CallCreate /\ UNCHANGED <<retryVars, portVars, loopVars, truncVars, stateVars, resultVars, mainVars, shipVars>>
    \/ CallRemove /\ UNCHANGED <<retryVars, portVars, loopVars, truncVars, stateVars, resultVars, mainVars, shipVars>>
    \/ CallValidate /\ UNCHANGED <<retryVars, portVars, loopVars, truncVars, stateVars, resultVars, mainVars, shipVars>>

SpecTree == InitTree /\ [][NextTree]_vars

\* One call of truncate_output.
InitTrunc == RetryIdle /\ PortsIdle /\ LoopIdle /\ TreeIdle /\ TruncInit /\ StateIdle /\ ResultIdle /\ MainIdle /\ ShipIdle

NextTrunc ==
    \/ Truncate /\ UNCHANGED <<retryVars, portVars, loopVars, treeVars, stateVars, resultVars, mainVars, shipVars>>

SpecTrunc == InitTrunc /\ [][NextTrunc]_vars

\* Two processes run main and keep their workflow state.
InitState == RetryIdle /\ PortsIdle /\ LoopIdle /\ TreeIdle /\ TruncIdle /\ StateInit /\ ResultIdle /\ MainIdle /\ ShipIdle

NextState ==
    \/ \E p \in Procs : MainLoad(p) /\ UNCHANGED <<retryVars, portVars, loopVars, treeVars, truncVars, resultVars, mainVars, shipVars>>
    \/ \E p \in Procs : MainAppendAdwId(p) /\ UNCHANGED <<retryVars, portVars, loopVars, treeVars, truncVars, resultVars, mainVars, shipVars>>
    \/ \E p \in Procs : MainValidate(p) /\ UNCHANGED <<retryVars, portVars, loopVars, treeVars, truncVars, resultVars, mainVars, shipVars>>
    \/ \E p \in Procs : MainStage(p) /\ UNCHANGED <<retryVars, portVars, loopVars, treeVars, truncVars, resultVars, mainVars, shipVars>>
    \/ \E p \in Procs : MainExit(p) /\ UNCHANGED <<retryVars, portVars, loopVars, treeVars, truncVars, resultVars, mainVars, shipVars>>

SpecState == InitState /\ [][NextState]_vars

\* The response for one output file of an agent that exited with status 0.
InitResult == RetryIdle /\ PortsIdle /\ LoopIdle /\ TreeIdle /\ TruncIdle /\ StateIdle /\ ResultInit /\ MainIdle /\ ShipIdle

NextResult ==
    \/ Respond /\ UNCHANGED <<retryVars, portVars, loopVars, treeVars, truncVars, stateVars, mainVars, shipVars>>

SpecResult == InitResult /\ [][NextResult]_vars

\* main from the run logger to the first build pass.
InitMain == RetryIdle /\ PortsIdle /\ LoopIdle /\ TreeIdle /\ TruncIdle /\ StateIdle /\ ResultIdle /\ MainInit /\ ShipIdle

NextMain ==
    \/ SetupRepo /\ UNCHANGED <<retryVars, portVars, loopVars, treeVars, truncVars, stateVars, resultVars, shipVars>>
    \/ SetupValidate /\ UNCHANGED <<retryVars, portVars, loopVars, treeVars, truncVars, stateVars, resultVars, shipVars>>
    \/ SetupPorts /\ UNCHANGED <<retryVars, portVars, loopVars, treeVars, truncVars, stateVars, resultVars, shipVars>>
    \/ SetupIssue /\ UNCHANGED <<retryVars, portVars, loopVars, treeVars, truncVars, stateVars, resultVars, shipVars>>
    \/ SetupClassify /\ UNCHANGED <<retryVars, portVars, loopVars, treeVars, truncVars, stateVars, resultVars, shipVars>>
    \/ SetupBranch /\ UNCHANGED <<retryVars, portVars, loopVars, treeVars, truncVars, stateVars, resultVars, shipVars>>
    \/ SetupWorktree /\ UNCHANGED <<retryVars, portVars, loopVars, treeVars, truncVars, stateVars, resultVars, shipVars>>
    \/ SetupLoopScript /\ UNCHANGED <<retryVars, portVars, loopVars, treeVars, truncVars, stateVars, resultVars, shipVars>>
    \/ SetupSpec /\ UNCHANGED <<retryVars, portVars, loopVars, treeVars, truncVars, stateVars, resultVars, shipVars>>
    \/ SetupPlan /\ UNCHANGED <<retryVars, portVars, loopVars, treeVars, truncVars, stateVars, resultVars, shipVars>>

SpecMain == InitMain /\ [][NextMain]_vars

\* main after the backpressure loop.
InitShip == RetryIdle /\ PortsIdle /\ LoopIdle /\ TreeIdle /\ TruncIdle /\ StateIdle /\ ResultIdle /\ MainIdle /\ ShipInit

NextShip ==
    \/ ShipReview /\ UNCHANGED <<retryVars, portVars, loopVars, treeVars, truncVars, stateVars, resultVars, mainVars>>
    \/ ShipCapture /\ UNCHANGED <<retryVars, portVars, loopVars, treeVars, truncVars, stateVars, resultVars, mainVars>>
    \/ ShipFinalize /\ UNCHANGED <<retryVars, portVars, loopVars, treeVars, truncVars, stateVars, resultVars, mainVars>>
    \/ ShipMerge /\ UNCHANGED <<retryVars, portVars, loopVars, treeVars, truncVars, stateVars, resultVars, mainVars>>
    \/ ShipComplete /\ UNCHANGED <<retryVars, portVars, loopVars, treeVars, truncVars, stateVars, resultVars, mainVars>>

SpecShip == InitShip /\ [][NextShip]_vars

(***************************************************************************)
(* Properties of the retry wrapper (SpecRetry).                            *)
(***************************************************************************)

RetryableCodes ==
    {CLAUDE_CODE_ERROR, TIMEOUT_ERROR, EXECUTION_ERROR, ERROR_DURING_EXECUTION}

RetryableFailure(resp) == ~resp.success /\ resp.retry_code \in RetryableCodes

\* The first k invocations returned retryable failures.
FirstFailed(k) == \A i \in 1 .. k : RetryableFailure(calls[i])

\* C2: with max_retries = N >= 0, when the first N invocations return retryable
\* failures and invocation N + 1 returns a success, there are exactly N + 1
\* invocations and the wrapper returns that success; it does not return while
\* fewer than N + 1 invocations were made and all of them were retryable failures.
C2_RetryThenSuccess ==
    max_retries >= 0 =>
        /\ (Len(calls) <= max_retries /\ FirstFailed(Len(calls))) => rpc # "returned"
        /\ ( /\ Len(calls) > max_retries
             /\ FirstFailed(max_retries)
             /\ calls[max_retries + 1].success )
           => /\ Len(calls) = max_retries + 1
              /\ rpc = "returned"
              /\ returned = calls[max_retries + 1]

C2_Witness ==
    /\ max_retries = 3
    /\ rpc = "returned"
    /\ Len(calls) = 4
    /\ FirstFailed(3)
    /\ returned.success

\* C3: an invocation that returns retry code NONE, success or failure, is the last
\* one: the wrapper returns that response and neither invokes nor sleeps again; so
\* a first outcome with code NONE means one attempt whatever max_retries is.
C3_NoneStops ==
    \A i \in 1 .. Len(calls) :
        calls[i].retry_code = RC_NONE =>
            /\ i = Len(calls)
            /\ rpc = "returned"
            /\ returned = calls[i]
            /\ Len(sleeps) = i - 1

C3_Witness ==
    /\ max_retries = MaxRetries
    /\ rpc = "returned"
    /\ Len(calls) = 1
    /\ ~calls[1].success
    /\ calls[1].retry_code = RC_NONE

\* C4: for max_retries >= 0 there are at most max_retries + 1 invocations; when
\* the wrapper returns after nothing but retryable failures it made exactly
\* max_retries + 1 invocations and returns the response of the last one; and what
\* it returns is a response, never None.
C4_AttemptBound ==
    max_retries >= 0 =>
        /\ Len(calls) <= max_retries + 1
        /\ (rpc = "returned" /\ FirstFailed(Len(calls)))
               => /\ Len(calls) = max_retries + 1
                  /\ returned = calls[Len(calls)]
        /\ rpc = "returned" => returned # NoResponse

C4_Witness ==
    /\ max_retries = 2
    /\ rpc = "returned"
    /\ Len(calls) = 3
    /\ FirstFailed(3)
    /\ calls[1] # calls[3]
    /\ returned = calls[3]

(***************************************************************************)
(* Properties of the port allocation (SpecProbe, SpecPorts).               *)
(***************************************************************************)

\* 36^k mod 15.
RECURSIVE Pow36Mod15(_)
Pow36Mod15(k) == IF k = 0 THEN 1 ELSE (36 * Pow36Mod15(k - 1)) % 15

\* The base-36 value of a digit string modulo 15, from the digits' place values.
RECURSIVE PlaceValueMod15(_, _)
PlaceValueMod15(chars, k) ==
    IF k > Len(chars)
    THEN 0
    ELSE (DigitValue(chars[k]) * Pow36Mod15(Len(chars) - k)
              + PlaceValueMod15(chars, k + 1)) % 15

\* The alphanumeric characters of the first 8 characters of id.
AlnumOfPrefix(id) ==
    LET n == IF Len(id) < 8 THEN Len(id) ELSE 8
    IN  SelectSeq(SubSeq(id, 1, n), LAMBDA c : c \in Base36Chars \cup {"E_ACUTE"})

IsBase36(chars) == chars # <<>> /\ \A k \in 1 .. Len(chars) : chars[k] \in Base36Chars

\* The slot the run starts from: the base-36 index of its identifier, or the
\* process's hash residue when the identifier has no base-36 value.
StartSlot(r) ==
    IF IsBase36(AlnumOfPrefix(adw_id[r]))
    THEN PlaceValueMod15(AlnumOfPrefix(adw_id[r]), 1)
    ELSE pyhash[r]

C6_ProbeOrder ==
    LET t == tested[1]
        n == Len(t)
    IN  /\ n <= 15
        /\ \A k \in 1 .. n :
              /\ t[k].slot = (StartSlot(1) + k - 1) % 15
              /\ t[k].backend = 9100 + t[k].slot
              /\ t[k].frontend = 9200 + t[k].slot
        /\ \A k \in 1 .. (n - 1) : ~t[k].ok
        /\ (ppc[1] = "allocated" /\ n > 0)
              => /\ t[n].ok
                 /\ alloc[1] = <<9100 + t[n].slot, 9200 + t[n].slot>>
        /\ ppc[1] = "raised"
              => /\ n = 15
                 /\ {t[k].slot : k \in 1 .. n} = 0 .. 14
                 /\ \A k \in 1 .. n : ~t[k].ok

C6_Witness ==
    /\ ppc[1] = "allocated"
    /\ Len(tested[1]) >= 3
    /\ tested[1][Len(tested[1])].slot < tested[1][1].slot

C6_WitnessExhausted == ppc[1] = "raised" /\ Len(tested[1]) = 15

\* C7 as claimed: get_ports_for_adw(id) is (9100 + i, 9200 + i) with 0 <= i <= 14,
\* i the base-36 value of the identifier's alphanumeric prefix modulo 15 where that
\* value exists, and two processes get the same pair for the same identifier.
C7_DeterministicPorts ==
    /\ \A r \in Runs :
          ppc[r] = "main_b" =>
              /\ frontend_port[r] = backend_port[r] + 100
              /\ backend_port[r] - 9100 \in 0 .. 14
              /\ IsBase36(AlnumOfPrefix(adw_id[r]))
                    => backend_port[r] = 9100 + PlaceValueMod15(AlnumOfPrefix(adw_id[r]), 1)
    /\ \A r \in Runs, q \in Runs :
          (ppc[r] = "main_b" /\ ppc[q] = "main_b" /\ adw_id[r] = adw_id[q])
              => backend_port[r] = backend_port[q] /\ frontend_port[r] = frontend_port[q]

(***************************************************************************)
(* Properties of the backpressure loop (SpecLoop).                         *)
(***************************************************************************)

\* How many times a step occurs in the trace.
Count(ev) == Cardinality({i \in DOMAIN trace : trace[i] = ev})

\* main has left the loop.
LeftLoop == pc \in {"review", "finalize"}

\* The last element of a non-empty sequence.
Last(s) == s[Len(s)]

\* C1: when the first test invocation reports 2 failing tests and the second reports
\* none, the run consists of the initial planning, a build pass with its commit and
\* test, one write of TEST_FAILURES.md, one re-planning and one delete of the file,
\* then the second build pass with its commit and test; the loop is left after pass 2
\* with all_tests_passed true and no failure file.
C1_TwoFailuresThenNone ==
    failHist = <<2, 0>> =>
        /\ LeftLoop
        /\ trace = <<"plan", "build", "commit", "test", "write", "plan", "delete",
                     "build", "commit", "test">>
        /\ backpressure_loop = 2
        /\ all_tests_passed
        /\ failures_file = Absent

C1_Witness == failHist = <<2, 0>> /\ LeftLoop /\ ~skip_tests

\* C8: a test invocation that reports no failing test ends the loop at once with
\* all_tests_passed true (nothing follows it in the trace, and every earlier
\* invocation reported failures); one that reports failures leads either to
\* re-planning or out of the loop, in both cases with all_tests_passed false.
C8_DoneIffNoFailures ==
    failHist # <<>> =>
        /\ \A i \in 1 .. (Len(failHist) - 1) : failHist[i] > 0
        /\ Last(failHist) = 0 =>
              /\ LeftLoop
              /\ all_tests_passed
              /\ Last(trace) = "test"
        /\ Last(failHist) > 0 => ~all_tests_passed
        /\ (LeftLoop /\ all_tests_passed) => Last(failHist) = 0

C8_Witness == LeftLoop /\ Len(failHist) = 2 /\ Last(failHist) = 0 /\ all_tests_passed

C8_WitnessFailing == LeftLoop /\ failHist # <<>> /\ Last(failHist) > 0 /\ ~all_tests_passed

\* C9: with a cap N > 0 and failures in every test invocation, the loop is left after
\* exactly N build passes, N test invocations and N - 1 re-plannings, with
\* all_tests_passed false and without an exit status, and no pass beyond N starts;
\* with cap 0 the loop is never left after a test invocation that reported failures.
C9_CapAbandons ==
    /\ max_loops > 0 => backpressure_loop <= max_loops
    /\ (max_loops > 0 /\ LeftLoop /\ failHist # <<>> /\ Last(failHist) > 0) =>
          /\ Count("build") = max_loops
          /\ Count("test") = max_loops
          /\ Count("write") = max_loops - 1
          /\ Count("plan") - 1 = max_loops - 1
          /\ ~all_tests_passed
          /\ exit_code = None
    /\ (max_loops > 0 /\ failHist # <<>> /\ Last(failHist) > 0
            /\ Len(failHist) = max_loops) => LeftLoop
    /\ (max_loops = 0 /\ failHist # <<>> /\ Last(failHist) > 0) => ~LeftLoop

C9_Witness ==
    /\ max_loops = MaxCap /\ LeftLoop /\ Len(failHist) = MaxCap /\ Last(failHist) > 0

C9_WitnessUnlimited ==
    /\ max_loops = 0 /\ Len(failHist) = MaxLoops /\ Last(failHist) > 0
    /\ pc = "replan_write"

\* The entries are those of the failing tests of the results, in their order.
EntriesOfFailing(entries, results) ==
    /\ Len(entries) = Cardinality({i \in DOMAIN results : ~results[i].passed})
    /\ \E f \in [DOMAIN entries -> DOMAIN results] :
          /\ \A i, j \in DOMAIN entries : i < j => f[i] < f[j]
          /\ \A i \in DOMAIN entries :
                /\ ~results[f[i]].passed
                /\ entries[i].test_name = results[f[i]].test_name
                /\ entries[i].execution_command = results[f[i]].execution_command
                /\ entries[i].test_purpose = results[f[i]].test_purpose
                /\ entries[i].error =
                      (IF results[f[i]].error \in {None, ""} THEN "unknown"
                       ELSE results[f[i]].error)

\* The steps from position i of the trace on start with the steps of s.
FollowedBy(i, s) ==
    \A k \in DOMAIN s : i + k <= Len(trace) => trace[i + k] = s[k]

\* C10: while the re-planning runs and until the cleanup, TEST_FAILURES.md exists and
\* holds one entry for each failing test of the last test invocation; after the
\* cleanup the file is gone whatever the re-planning returned; every write is followed
\* by the planning, the delete and the next build pass, in that order; the run only
\* exits before the first build pass.
C10_ReplanOrder ==
    /\ pc \in {"replan_plan", "replan_cleanup"} =>
          /\ failures_file # Absent
          /\ failures_file.loop = backpressure_loop
          /\ failures_file.failed = Last(failHist)
          /\ Len(failures_file.entries) = Last(failHist)
          /\ EntriesOfFailing(failures_file.entries, test_results)
    /\ (pc = "build" /\ backpressure_loop >= 1) =>
          /\ failures_file = Absent
          /\ Len(trace) >= 3
          /\ SubSeq(trace, Len(trace) - 2, Len(trace)) = <<"write", "plan", "delete">>
    /\ \A i \in DOMAIN trace :
          trace[i] = "write" => FollowedBy(i, <<"plan", "delete", "build">>)
    /\ Count("delete") <= Count("write")
    /\ (pc = "exit" \/ exit_code # None) => Count("build") = 0

C10_Witness ==
    /\ pc = "commit" /\ backpressure_loop = 2 /\ failures_file = Absent
    /\ Len(failHist) = 1 /\ failHist[1] = 2
    /\ trace[6] = "plan" /\ trace[7] = "delete"

C10_WitnessFailedReplan ==
    /\ pc = "build" /\ backpressure_loop = 1 /\ ~success /\ failures_file = Absent

\* The initial planning has run and nothing else has.
PlanJustRan == trace = <<"plan">>

\* C11 as stated: after the initial planning the first build pass is next whenever
\* IMPLEMENTATION_PLAN.md exists, also when the planning reported a failure.
C11_PlanFailureNotFatal ==
    (PlanJustRan /\ plan_file) => (pc = "build" /\ exit_code = None)

\* C11, amended: after the initial planning the first build pass is next exactly when
\* the planning reported success and IMPLEMENTATION_PLAN.md exists; otherwise the run
\* ends with status 1 and no build pass ever starts.
C11_PlanGate ==
    /\ PlanJustRan =>
          /\ (pc = "build") <=> (success /\ plan_file)
          /\ (pc = "exit") <=> ~(success /\ plan_file)
          /\ (pc = "build") => (exit_code = None /\ state_plan_file # None)
          /\ (pc = "exit") => (exit_code = 1 /\ ~planRecorded)
    /\ pc = "exit" => (PlanJustRan /\ Count("build") = 0)

C11_Witness == PlanJustRan /\ plan_file /\ ~success /\ pc = "exit"

\* C12: every build pass, successful or not, is followed at once by one commit step
\* and, unless tests are skipped, by the test invocation; the commit steps are as
\* many as the build passes (one fewer only while the commit of the current pass is
\* pending), and a run that has built never has an exit status.
C12_CommitAfterEveryBuild ==
    /\ \A i \in DOMAIN trace :
          trace[i] = "build" =>
             /\ FollowedBy(i, <<"commit">>)
             /\ ~skip_tests => FollowedBy(i, <<"commit", "test">>)
    /\ pc = "commit" => (Last(trace) = "build" /\ Count("build") = Count("commit") + 1)
    /\ pc # "commit" => Count("commit") = Count("build")
    /\ pc = "test" => Last(trace) = "commit"
    /\ (LeftLoop /\ ~skip_tests) => Last(trace) = "test"
    /\ Count("build") > 0 => (exit_code = None /\ pc # "exit")
    /\ Count("build") = backpressure_loop

C12_Witness == pc = "test" /\ ~success /\ backpressure_loop = 2 /\ Count("commit") = 2

\* C13: after a test invocation whose response failed or did not parse, run_tests has
\* returned no results, 0 passed and 0 failed, and the loop is left at once with
\* all_tests_passed true: nothing follows the test in the trace, and the failure file
\* has been written only for the earlier invocations.
C13_UnparseableCountsAsPass ==
    testKind \in {"failed_response", "unparseable"} =>
        /\ test_results = <<>> /\ passed = 0 /\ failed = 0
        /\ Last(failHist) = 0
        /\ all_tests_passed
        /\ LeftLoop
        /\ Last(trace) = "test"
        /\ Count("write") = Len(failHist) - 1
        /\ Count("plan") = Len(failHist)

C13_Witness == testKind = "unparseable" /\ LeftLoop /\ Len(failHist) = 1

C13_WitnessFailedResponse == testKind = "failed_response" /\ LeftLoop /\ Len(failHist) = 2

\* C33: a plan that is missing after the initial planning ends the run with status 1
\* before any build pass and without the plan being recorded in the state; the
\* planning starts without a plan in the worktree, so the plan is recorded and the
\* first build pass is reached only when this run's planning wrote the plan.
C33_PlanProducedByRun ==
    /\ (PlanJustRan /\ ~plan_file) =>
          /\ pc = "exit" /\ exit_code = 1
          /\ Count("build") = 0 /\ ~planRecorded
    /\ pc = "plan" => ~plan_file
    /\ (planRecorded \/ pc = "build" \/ Count("build") > 0) => (planWritten /\ plan_file)
    /\ planRecorded => state_plan_file = "IMPLEMENTATION_PLAN.md"

C33_Witness ==
    /\ PlanJustRan /\ ~plan_file /\ success /\ pc = "exit" /\ exit_code = 1

C33_WitnessRecorded ==
    /\ PlanJustRan /\ pc = "build" /\ planRecorded /\ planWritten

\* The stages in which C39 has TEST_FAILURES.md absent: the initial planning, every
\* build, commit and test, and the stages after the loop.
OutsideReplan == pc \in {"plan", "build", "commit", "test", "review", "finalize"}

\* C39: TEST_FAILURES.md exists only between its write and the delete that follows the
\* re-planning, also in a run that reuses the worktree of a run that was killed.
C39_FailuresFileTransient ==
    OutsideReplan => failures_file = Absent

\* A file that is there outside the re-planning is the one the worktree started with,
\* and no re-planning of this run has taken place yet.
OnlyStaleOutsideReplan ==
    (OutsideReplan /\ failures_file # Absent) =>
        /\ failures_file = StaleFailures
        /\ Count("write") = 0

\* The file of a killed run is in the worktree while a build pass is committed.
StaleFileCommitted ==
    /\ pc = "test" /\ Last(trace) = "commit" /\ failures_file = StaleFailures

(***************************************************************************)
(* Properties of the responses of prompt_claude_code (SpecRetry).           *)
(***************************************************************************)

\* A response with success carries retry code NONE, and one with a retryable code is
\* a failure.
SuccessCarriesNone(resp) ==
    /\ resp.success => resp.retry_code = RC_NONE
    /\ resp.retry_code \in RetryableCodes => ~resp.success

\* C19: every response prompt_claude_code returns, and the response the retry wrapper
\* returns to execute_template, carries retry code NONE when it is a success and is a
\* failure when its code is retryable.
C19_SuccessCarriesNone ==
    /\ \A i \in DOMAIN calls : SuccessCarriesNone(calls[i])
    /\ returned # NoResponse => SuccessCarriesNone(returned)

C19_Witness ==
    /\ rpc = "returned" /\ returned # NoResponse /\ returned.success
    /\ Len(calls) = 2 /\ calls[1].retry_code = ERROR_DURING_EXECUTION

\* C20: an invocation of prompt_claude_code whose version probe is not found or exits
\* non-zero returns the failure with code NONE after the probe alone, and the wrapper
\* returns it at once: when the first invocation meets it there is one invocation, one
\* probe, no sleep, no prompt log, no output file and no agent launched.
C20_ToolMissingOneAttempt ==
    /\ \A i \in DOMAIN calls :
          calls[i] = NotInstalledResponse =>
             /\ i = Len(calls)
             /\ rpc = "returned"
             /\ returned = calls[i]
             /\ ~returned.success /\ returned.retry_code = RC_NONE
             /\ effects[Len(effects)] = "probe"
    /\ (calls # <<>> /\ calls[1] = NotInstalledResponse) =>
          /\ Len(calls) = 1
          /\ effects = <<"probe">>
          /\ sleeps = <<>>

C20_Witness ==
    /\ rpc = "returned" /\ calls = <<NotInstalledResponse>> /\ max_retries = 3
    /\ effects = <<"probe">>

\* The response of the latest invocation that returned.
LastCall == calls[Len(calls)]

\* How often step x was started.
StepCount(steps, x) == Cardinality({i \in DOMAIN steps : steps[i] = x})

ExecutionErrorOutcome(o) ==
    o.kind = "exit0" /\ o.has_result /\ o.subtype = "error_during_execution"

\* C21: an agent that exits 0 with a result record of subtype error_during_execution
\* gives a failure with code ERROR_DURING_EXECUTION, whether the record's is_error is
\* true or false; the wrapper retries it: it goes on to the next attempt, and returns
\* it only as the response of attempt max_retries.
C21_ExecutionErrorRetried ==
    ExecutionErrorOutcome(last_outcome) =>
       /\ ~LastCall.success
       /\ LastCall.retry_code = ERROR_DURING_EXECUTION
       /\ rpc = "loop" => attempt = Len(calls) /\ attempt <= max_retries
       /\ rpc = "returned" => returned = LastCall /\ Len(calls) = max_retries + 1

C21_Witness ==
    /\ ExecutionErrorOutcome(last_outcome) /\ ~last_outcome.is_error
    /\ rpc = "loop" /\ attempt = 1 /\ Len(calls) = 1

C21_WitnessExhausted ==
    /\ ExecutionErrorOutcome(last_outcome) /\ last_outcome.is_error
    /\ rpc = "returned" /\ Len(calls) = 3

\* C22: an agent that exits 0 without a result record gives the failure with the fixed
\* message, code NONE and no session id, and the wrapper returns it at once.
C22_NoResultNotRetried ==
    (last_outcome.kind = "exit0" /\ ~last_outcome.has_result) =>
       /\ LastCall = AgentPromptResponse("No result message found in Claude Code output",
                                         FALSE, None, RC_NONE)
       /\ rpc = "returned"
       /\ returned = LastCall
       /\ Len(sleeps) = Len(calls) - 1

C22_Witness ==
    /\ last_outcome.kind = "exit0" /\ ~last_outcome.has_result
    /\ rpc = "returned" /\ Len(calls) = 2 /\ max_retries = 3

\* C23: an agent that exits non-zero gives a failure with code CLAUDE_CODE_ERROR whose
\* output carries the stripped stderr, or the exit-code message when that is empty; no
\* invocation of prompt_claude_code launches the agent more than once.
C23_NonzeroExit ==
    /\ last_outcome.kind = "nonzero" =>
          /\ ~LastCall.success
          /\ LastCall.retry_code = CLAUDE_CODE_ERROR
          /\ LastCall.session_id = None
          /\ LastCall.output =
                IF last_outcome.stderr \in {"", " "}
                THEN "Command failed with exit code"
                ELSE "Claude Code error: " \o last_outcome.stderr
    /\ StepCount(effects, "launch") <= StepCount(effects, "probe")
    /\ \A o \in AgentOutcomes : StepCount(Effects(o), "launch") <= 1

C23_Witness ==
    /\ last_outcome.kind = "nonzero" /\ last_outcome.stderr = "boom"
    /\ Len(calls) = 2 /\ StepCount(effects, "launch") = 2

C23_WitnessBlank ==
    /\ last_outcome.kind = "nonzero" /\ last_outcome.stderr = " "
    /\ Len(calls) = 1

\* C24: for every max_retries >= 0 and every configured delay sequence the wrapper
\* builds its schedule (the sequence, extended with last + 2 up to max_retries
\* entries) and sleeps only between attempts, the k-th element before retry k.
C24_DelaySchedule ==
    /\ rpc # "index_error"
    /\ rpc \in {"loop", "returned", "raised"} =>
          /\ max_retries >= 0 => Len(retry_delays) >= max_retries
          /\ Len(sleeps) <= Len(retry_delays)
          /\ \A k \in DOMAIN sleeps : sleeps[k] = retry_delays[k]
          /\ Len(effects) > 0 => Len(sleeps) = StepCount(effects, "probe") - 1

\* The schedule of C24 where line 191 does not raise; the defaults with max_retries 5
\* give 1, 3, 5, 7, 9.
DelayScheduleApplied ==
    /\ rpc \in {"loop", "returned", "raised"} =>
          /\ max_retries >= 0 => Len(retry_delays) >= max_retries
          /\ \A k \in DOMAIN sleeps : sleeps[k] = retry_delays[k]
          /\ Len(effects) > 0 => Len(sleeps) = StepCount(effects, "probe") - 1
    /\ ExtendDelays(DefaultRetryDelays, 5) = <<1, 3, 5, 7, 9>>

\* C37: an exception while the agent is launched or run becomes a failed response
\* that the wrapper retries, with code EXECUTION_ERROR; an agent that exceeds the
\* timeout is reported with code TIMEOUT_ERROR.
C37_LaunchFailuresReported ==
    /\ last_outcome.kind \in {"open_raises", "exception"} =>
          /\ ~LastCall.success /\ LastCall.retry_code = EXECUTION_ERROR
          /\ rpc = "returned" => Len(calls) = max_retries + 1
    /\ last_outcome.kind = "hangs" =>
          /\ rpc # "blocked"
          /\ calls # <<>> /\ LastCall = TimeoutResponse

\* The exceptions of C37 are reported and retried.
LaunchExceptionsRetried ==
    last_outcome.kind \in {"open_raises", "exception"} =>
       /\ ~LastCall.success /\ LastCall.retry_code = EXECUTION_ERROR
       /\ rpc = "returned" => Len(calls) = max_retries + 1
       /\ rpc = "loop" => attempt = Len(calls)

\* No response of prompt_claude_code carries TIMEOUT_ERROR.
NoTimeoutResponse == \A i \in DOMAIN calls : calls[i].retry_code # TIMEOUT_ERROR

\* C30: prompt_claude_code returns a response whatever it meets and never lets an
\* exception out.
C30_NeverRaises == rpc # "raised"

\* The failures inside the try block of prompt_claude_code are turned into responses.
CaughtFailures ==
    last_outcome.kind \in {"open_raises", "convert_raises", "exception"} =>
       ~LastCall.success /\ LastCall.retry_code = EXECUTION_ERROR

(***************************************************************************)
(* Properties of truncate_output (SpecTrunc).                              *)
(***************************************************************************)

\* The call is within the budget the suffix needs.
BudgetFitsSuffix == tr_max_length >= Len(tr_suffix) + 1

\* C25: for every argument, every suffix and every max_length >= len(suffix) + 1 the
\* text returned is at most max_length long, also for a stream whose lines give no
\* result text and no assistant text.
C25_LengthBounded ==
    (tr_pc = "done" /\ BudgetFitsSuffix) => Len(tr_returned) <= tr_max_length

\* The bound of C25 for the arguments that do not end in the summary of line 94.
LengthBoundedUnlessSummary ==
    (/\ tr_pc = "done" /\ BudgetFitsSuffix
     /\ ~(LooksLikeJsonl(tr_output) /\ LastLineText(tr_output.lines) = <<>>))
    => Len(tr_returned) <= tr_max_length

\* A cut text ends with the suffix and is no longer than the budget.
CutKeepsSuffix ==
    (/\ tr_pc = "done" /\ BudgetFitsSuffix /\ tr_output.kind = "text"
     /\ Len(tr_output.chars) > tr_max_length)
    => /\ Len(tr_returned) <= tr_max_length
       /\ SubSeq(tr_returned, Len(tr_returned) - Len(tr_suffix) + 1, Len(tr_returned))
             = tr_suffix

\* The last record of type result.
TerminalResult(lines) ==
    LET results == {i \in DOMAIN lines : lines[i].type = "result"}
    IN  lines[CHOOSE i \in results : \A j \in results : j <= i]

HasTerminalResultText(output) ==
    /\ output.kind = "stream"
    /\ \E i \in DOMAIN output.lines : output.lines[i].type = "result"
    /\ TerminalResult(output.lines).text # <<>>

\* C26: for a stream whose terminal result record has a non-empty text, the text
\* returned is truncate_output of that text, whatever other records the stream holds.
C26_ResolvesTerminalResult ==
    (tr_pc = "done" /\ HasTerminalResultText(tr_output)) =>
       tr_returned =
          TruncateText(TerminalResult(tr_output.lines).text, tr_max_length, tr_suffix)

\* The resolution of C26 where the stream has two records or more and no assistant
\* text follows the terminal result record.
ResolvesWhenResultIsLastText ==
    (/\ tr_pc = "done" /\ HasTerminalResultText(tr_output)
     /\ LooksLikeJsonl(tr_output)
     /\ LastLineText(tr_output.lines) = TerminalResult(tr_output.lines).text)
    => tr_returned =
          TruncateText(TerminalResult(tr_output.lines).text, tr_max_length, tr_suffix)

\* A stream of one record is returned as its raw characters.
SingleRecordVerbatim ==
    /\ tr_pc = "done" /\ tr_output.kind = "stream" /\ Len(tr_output.lines) = 1
    /\ tr_output.lines[1].type = "result" /\ tr_output.lines[1].text = <<"R">>
    /\ tr_returned = <<"{", "r", "R", "}">>

(***************************************************************************)
(* Properties of the workflow state (SpecState).                           *)
(***************************************************************************)

\* Process p takes the step that loads its state / that saves it.
LoadStep(p) == st_pc[p] = "load" /\ st_pc'[p] = "append"
SaveStep(p) == st_saves'[p] = st_saves[p] + 1

\* What a state becomes when it is written and read back.
RoundTrip(data) == Restore(Persist(data))

HistoryAppendOnly ==
    \A p \in Procs :
       st_mem[p] # Absent =>
          LET before == st_loaded[p].all_adws
              now == st_mem[p].all_adws
          IN  /\ Len(now) = Len(before) + st_appended[p] + st_saves[p]
              /\ SubSeq(now, 1, Len(before)) = before
              /\ \A i \in (Len(before) + 1) .. Len(now) : now[i] = WorkflowName
              /\ st_saves[p] = st_stages_run[p]
              /\ st_pc[p] = "done" => st_saves[p] = Len(StagesOf(st_valid[p]))

\* C28: every save appends the workflow name to the run history, whether or not it is
\* there already, and writes the list; a state object's history only grows at its
\* end, and a complete run of main adds one entry for each of its stages.
C28_SaveAppends ==
    /\ []HistoryAppendOnly
    /\ [][\A p \in Procs :
            /\ SaveStep(p) =>
                  /\ st_mem'[p].all_adws = Append(st_mem[p].all_adws, WorkflowName)
                  /\ st_store'[st_run[p]].all_adws = st_mem'[p].all_adws
            /\ st_mem[p] # Absent =>
                  SubSeq(st_mem'[p].all_adws, 1, Len(st_mem[p].all_adws))
                     = st_mem[p].all_adws]_vars

C28_Witness ==
    /\ st_pc[1] = "done" /\ st_saves[1] = 7
    /\ st_loaded[1].all_adws = <<WorkflowName>>
    /\ Len(st_mem[1].all_adws) = 9

\* C29: the persisted record is the in-memory state of the process that saved last,
\* written as a whole: a field that process has not updated holds the value the
\* process loaded, whatever another process persisted in between.
C29_LastWriterWins ==
    \A id \in StateRunIds :
       LET w == st_last_writer[id] IN
       w # 0 =>
          /\ st_store[id] = Persist(st_last_saved[w])
          /\ \A f \in ADWStateDataFields \ {"all_adws"} :
                f \notin st_written[w] => st_store[id][f] = st_loaded[w][f]

\* The update of branch_name that process 1 saved is gone after the save of process 2,
\* which loaded before it and updated other fields.
C29_Witness ==
    /\ st_run[2] = "a" /\ st_last_writer["a"] = 2
    /\ st_last_saved[1] # Absent /\ st_last_saved[1].branch_name = <<1>>
    /\ "branch_name" \notin st_written[2]
    /\ st_store["a"].branch_name = <<>>
    /\ st_store["a"].issue_number = <<2>>

\* No other process runs under the run id of p.
SoleProcess(p) == \A q \in Procs \ {p} : st_run[q] # st_run[p]

\* C34: when main exits, the persisted state of its run id is its in-memory state.
C34_PersistedEqualsMemory ==
    \A p \in Procs :
       (st_pc[p] = "exit" /\ SoleProcess(p)) =>
          /\ st_store[st_run[p]] # Absent
          /\ Restore(st_store[st_run[p]]) = st_mem[p]

\* After the first save of main the persisted state is the in-memory state between
\* the stages.
PersistedAfterEveryStage ==
    \A p \in Procs :
       (st_pc[p] \in {"stage", "exit", "done"} /\ st_saves[p] > 0 /\ SoleProcess(p)) =>
          /\ st_store[st_run[p]] # Absent
          /\ Restore(st_store[st_run[p]]) = st_mem[p]

\* main has exited at line 463 and the state it created was never written.
ExitWithoutRecord ==
    /\ st_pc[2] = "exit" /\ st_run[2] = "b" /\ st_saves[2] = 0
    /\ st_mem[2] # Absent /\ st_store["b"] = Absent

\* C35: the adw_id of a state never changes once it is set: load creates no record, a
\* record that exists is what main works on, the state main holds and the record it
\* writes carry the run id main was started with, and no step changes the field.
C35_RunIdImmutable ==
    /\ [](\A p \in Procs : st_mem[p] # Absent => st_mem[p].adw_id = <<st_run[p]>>)
    /\ [](\A id \in StateRunIds : st_store[id] # Absent => st_store[id].adw_id = <<id>>)
    /\ [][\A p \in Procs :
            /\ st_mem[p] # Absent => st_mem'[p].adw_id = st_mem[p].adw_id
            /\ LoadStep(p) =>
                  /\ st_store' = st_store
                  /\ st_store[st_run[p]] # Absent =>
                        st_mem'[p] = Restore(st_store[st_run[p]])]_vars

C35_Witness ==
    /\ st_pc[2] = "done" /\ st_run[2] = "b" /\ st_loaded[2].all_adws = <<>>
    /\ st_mem[2].adw_id = <<"b">> /\ st_store["b"].adw_id = <<"b">>
    /\ "issue_number" \in st_written[2]

(***************************************************************************)
(* Properties of the response for an output file (SpecResult).             *)
(***************************************************************************)

\* C36: when the output file holds a record of type result, the response is derived
\* from the last such record, whatever the other lines of the file are.
C36_LastResultDecides ==
    (rs_pc = "done" /\ LastResultIndex(rs_file) # 0) =>
       /\ rs_message = rs_file[LastResultIndex(rs_file)]
       /\ rs_response = ResultResponse(rs_file[LastResultIndex(rs_file)])

\* The derivation of C36 for the files all of whose lines are records or blank.
LastResultDecidesCleanFiles ==
    (/\ rs_pc = "done" /\ LastResultIndex(rs_file) # 0
     /\ \A i \in DOMAIN rs_file : ~IsGarbage(rs_file[i]))
    => /\ rs_message = rs_file[LastResultIndex(rs_file)]
       /\ rs_response = ResultResponse(rs_file[LastResultIndex(rs_file)])

\* A line that is not a record hides the result record that follows it.
GarbageHidesResult ==
    /\ rs_pc = "done" /\ Len(rs_file) = 2
    /\ IsGarbage(rs_file[1]) /\ rs_file[2].type = "result"
    /\ rs_response = NoResultResponse

\* The response carries the text of a result record.
CarriesText ==
    /\ rs_pc = "done" /\ rs_message # NoResultMessage
    /\ rs_message.subtype # "error_during_execution"

\* C38: the text of a result record whose error flag is set is returned with at most
\* 1000 characters, shortened to at most 800 when it is longer than 1000; the text of
\* a success record is returned unchanged.
C38_ErrorTextBounded ==
    CarriesText =>
       IF rs_message.is_error
       THEN /\ ~rs_response.success
            /\ Len(rs_response.output) <= ErrorTextThreshold
            /\ Len(rs_message.text) > ErrorTextThreshold =>
                  Len(rs_response.output) <= ErrorTextBudget
            /\ Len(rs_message.text) <= ErrorTextThreshold =>
                  rs_response.output = rs_message.text
       ELSE rs_response.success /\ rs_response.output = rs_message.text

C38_Witness ==
    /\ CarriesText /\ rs_message.is_error
    /\ Len(rs_message.text) = 1001 /\ Len(rs_response.output) = 765

C38_WitnessLongSuccess ==
    /\ CarriesText /\ ~rs_message.is_error
    /\ Len(rs_message.text) = 1040 /\ Len(rs_response.output) = 1040

(***************************************************************************)
(* Properties of main's start-up (SpecMain).                               *)
(***************************************************************************)

\* C32: whenever main ends before the first build pass, an error diagnostic has been
\* written with the logger and the exit status is not zero.
C32_AbortsAreLogged ==
    m_status # <<>> =>
       /\ m_status = <<1>>
       /\ m_log # <<>> /\ m_log[Len(m_log)] \in SetupErrors

\* Every sys.exit of lines 463-566 follows one logger.error, and main ends with
\* status 1 or not at all.
ExitsAreLogged ==
    /\ m_pc = "exit" => (m_status = <<1>> /\ Len(m_log) = 1 /\ m_log[1] \in SetupErrors)
    /\ m_status # <<>> <=> m_pc \in {"exit", "crashed"}
    /\ m_status \in {<<>>, <<1>>}

\* No free pair of ports: main has ended with RuntimeError and an empty log.
UnloggedCrash ==
    /\ m_pc = "crashed" /\ m_status = <<1>> /\ m_log = <<>>
    /\ m_trace[Len(m_trace)] = "find_next_available_ports"

InTrace(op) == \E i \in DOMAIN m_trace : m_trace[i] = op
Precedes(a, b) == \E i, j \in DOMAIN m_trace : i < j /\ m_trace[i] = a /\ m_trace[j] = b

\* main is past the validation of the worktree.
Validated == InTrace("validate_worktree")

\* C40: with a valid worktree main probes and allocates no port, creates no worktree
\* and leaves .ports.env alone, and the path and the ports of the state stay as
\* loaded; otherwise the ports are saved to the state before create_worktree, and the
\* .ports.env written after it holds the ports of the state.
C40_ReuseOrAllocate ==
    /\ (Validated /\ m_valid) =>
          /\ \A op \in {"is_port_available", "find_next_available_ports", "save ports",
                        "create_worktree", "save worktree_path",
                        "setup_worktree_environment"} : ~InTrace(op)
          /\ m_ports_env = m_env_before
          /\ m_state = m_loaded /\ m_saved = m_loaded /\ m_local = m_loaded
    /\ (Validated /\ ~m_valid) =>
          /\ InTrace("create_worktree") =>
                /\ Precedes("save ports", "create_worktree")
                /\ m_saved.backend_port = m_local.backend_port
                /\ m_saved.frontend_port = m_local.frontend_port
          /\ InTrace("setup_worktree_environment") =>
                /\ Precedes("create_worktree", "setup_worktree_environment")
                /\ m_ports_env = <<m_saved.backend_port[1], m_saved.frontend_port[1]>>
                /\ m_saved.worktree_path = <<SetupPath>>
          /\ m_pc \in {"loop_script", "spec", "plan", "build"} =>
                InTrace("setup_worktree_environment")

C40_Witness ==
    /\ m_pc = "build" /\ m_valid /\ m_ports_env = EarlierPorts
    /\ m_saved = EarlierSetup

C40_WitnessAllocated ==
    /\ m_pc = "build" /\ ~m_valid /\ m_loaded = EarlierSetup
    /\ InTrace("find_next_available_ports")
    /\ m_ports_env = <<9111, 9211>> /\ m_saved.backend_port = <<9111>>

(***************************************************************************)
(* Properties of main after the backpressure loop (SpecShip).              *)
(***************************************************************************)

\* C31: after the loop no failure of the review, of the screenshot capture or of the
\* merge ends the run: main never stops before the final save, and when it is done
\* the state is saved and the report says "PR created" exactly when the merge failed.
C31_SoftFailuresContinue ==
    /\ sh_pc \notin {"crashed", "blocked"}
    /\ sh_pc = "done" =>
          /\ sh_saved
          /\ sh_report = <<ShippedText(sh_merge[1])>>
          /\ ~sh_merge[1] <=> sh_report = <<"PR created">>

\* The failures that are returned as values leave the run going: main only stops
\* before the final save when the review's agent call raises or never returns, or
\* when a directory cannot be made.
ReturnedFailuresContinue ==
    /\ sh_pc = "done" =>
          /\ sh_saved
          /\ sh_report = <<ShippedText(sh_merge[1])>>
          /\ ~sh_merge[1] <=> sh_report = <<"PR created">>
    /\ sh_pc = "blocked" => (sh_agent # NoOutcome /\ Blocks(sh_agent))
    /\ sh_pc = "crashed" =>
          \/ sh_capture # None /\ CaptureRaises(sh_capture)
          \/ sh_capture = None /\ sh_agent = NoOutcome
          \/ sh_capture = None /\ sh_agent # NoOutcome /\ Raises(sh_agent)
    /\ (sh_pc \in {"finalize", "merge", "complete"}) => ~sh_saved

\* A failed review, a capture that timed out and a failed merge, and the run is done.
SoftFailuresSurvived ==
    /\ sh_pc = "done" /\ ~sh_review.success /\ sh_capture = "timeout"
    /\ ~sh_merge[1] /\ sh_report = <<"PR created">> /\ sh_saved

\* The review's agent call raised and main ended before the final save.
ReviewCrash ==
    /\ sh_pc = "crashed" /\ sh_agent # NoOutcome /\ Raises(sh_agent) /\ ~sh_saved

(***************************************************************************)
(* Properties of the worktree operations (SpecTree).                       *)
(***************************************************************************)

\* The canonical path of the run.
RunPath == TreePath(t_adw_id)

\* The calls of one function in callLog.
CallsOf(op) == {i \in DOMAIN callLog : callLog[i].op = op}

\* The calls of create_worktree that found nothing at the canonical path.
FreshCreates == {i \in CallsOf("create") : RunPath \notin callLog[i].dirs_before}

\* C14: once main has passed the worktree setup, the path in the state is set, exists
\* and is registered with git, and validate_worktree returns valid on it.
C14_WorktreeConsistent ==
    (tmode = "main" /\ tpc = "ready") =>
        /\ state_worktree_path # NoPath
        /\ state_worktree_path \in dirs
        /\ state_worktree_path \in registry
        /\ validate_worktree(state_worktree_path, dirs, registry).valid

\* C15: a call of create_worktree that finds something at the canonical path returns
\* that path without error, runs no git command and leaves the directories and the
\* registry as they were; so does a call that follows a successful one.
C15_CreateIdempotent ==
    /\ \A i \in CallsOf("create") :
          RunPath \in callLog[i].dirs_before =>
             /\ callLog[i].path = RunPath
             /\ callLog[i].error = NoError
             /\ callLog[i].cmds = <<>>
             /\ callLog[i].dirs_after = callLog[i].dirs_before
             /\ callLog[i].registry_after = callLog[i].registry_before
    /\ \A i \in CallsOf("create") :
          (i + 1 \in CallsOf("create") /\ callLog[i].ok) =>
             /\ callLog[i + 1].path = callLog[i].path
             /\ callLog[i + 1].error = NoError
             /\ callLog[i + 1].cmds = <<>>
             /\ callLog[i + 1].dirs_after = callLog[i].dirs_after
             /\ callLog[i + 1].registry_after = callLog[i].registry_after

C15_Witness ==
    /\ Len(callLog) = 2 /\ CallsOf("create") = {1, 2}
    /\ RunPath \in callLog[1].dirs_before /\ RunPath \notin callLog[1].registry_before
    /\ callLog[2].path = RunPath

\* C16 as stated: a call that finds nothing at the canonical path fetches, adds on a
\* new branch, retries on the existing branch when the add failed because the branch
\* exists, and returns an error on every other failure, a failed fetch included; main
\* then ends the run.
C16_EveryFailureIsError ==
    \A i \in FreshCreates :
       LET c == callLog[i] IN
       (c.fetch = "failed" \/ c.add = "error"
            \/ (c.add = "already_exists" /\ c.attach = "error")) => c.error # NoError

\* What C16 says of the states, with the failed fetch left out of the failures.
CreateFailures ==
    /\ \A i \in FreshCreates :
          LET c == callLog[i] IN
          /\ c.add = "already_exists" => c.cmds = <<"fetch", "add -b", "add">>
          /\ c.add # "already_exists" => c.cmds = <<"fetch", "add -b">>
          /\ (c.error # NoError) <=>
                (c.add = "error" \/ (c.add = "already_exists" /\ c.attach = "error"))
          /\ c.error = NoError =>
                /\ c.path = RunPath
                /\ RunPath \in c.dirs_after
                /\ RunPath \in c.registry_after
          /\ c.error # NoError => c.path = NoPath
    /\ (tmode = "main" /\ callLog # <<>> /\ callLog[1].error # NoError) =>
          (tpc = "exit" /\ texit = 1 /\ worktree_path = NoPath)
    /\ (tmode = "main" /\ callLog # <<>> /\ callLog[1].error = NoError) =>
          (tpc = "ready" /\ texit = None /\ state_worktree_path = RunPath)

\* C16, amended: a call that finds nothing at the canonical path fetches and, whether
\* or not the fetch failed, adds on a new branch; it retries on the existing branch
\* when the add failed because the branch exists; it returns an error exactly when the
\* add failed for another reason or the retry failed, and main then ends the run with
\* status 1 and the worktree_path of the state as it was.
C16_CreateFailures ==
    /\ []CreateFailures
    /\ [][tpc' = "exit" => state_worktree_path' = state_worktree_path]_vars

C16_Witness ==
    /\ tmode = "main" /\ tpc = "ready" /\ callLog # <<>>
    /\ callLog[1].fetch = "failed" /\ callLog[1].add = "already_exists"
    /\ callLog[1].attach = "ok"

C16_WitnessAbort ==
    /\ tmode = "main" /\ tpc = "exit" /\ callLog # <<>>
    /\ callLog[1].add = "already_exists" /\ callLog[1].attach = "error"

\* C17: validate_worktree returns valid exactly when the state holds a path, the path
\* exists and the path is registered; the reason it gives otherwise is that of the
\* first of these that fails.
C17_ValidateExact ==
    \A i \in CallsOf("validate") :
       LET c == callLog[i]
           sp == state_worktree_path
       IN  /\ c.ok <=> (sp # NoPath /\ sp \in c.dirs_before /\ sp \in c.registry_before)
           /\ sp = NoPath => c.error = <<"No worktree_path in state">>
           /\ (sp # NoPath /\ sp \notin c.dirs_before) =>
                 (c.error = <<"Worktree directory not found: ">> /\ c.path = sp)
           /\ (sp # NoPath /\ sp \in c.dirs_before /\ sp \notin c.registry_before) =>
                 c.error = <<"Worktree not registered with git">>

\* C18: remove_worktree deregisters first, deletes the directory only if that failed,
\* fails exactly when both failed, and after a success the directory is gone and the
\* worktree is not registered.
C18_RemoveSuccessMeansGone ==
    \A i \in CallsOf("remove") :
       LET c == callLog[i] IN
       /\ c.cmds[1] = "remove --force"
       /\ Len(c.cmds) = 2 => (c.cmds[2] = "rmtree" /\ c.add = "error")
       /\ ~c.ok <=> (c.add = "error" /\ c.attach = "raises")
       /\ ~c.ok => Len(c.error) = 2
       /\ c.ok => (c.path \notin c.dirs_after /\ c.path \notin c.registry_after)

\* What remove_worktree does keep: the order of the two removals, failure exactly when
\* both fail, the directory gone after a success, and the registry as it was when the
\* deregistration failed.
RemoveFallback ==
    \A i \in CallsOf("remove") :
       LET c == callLog[i] IN
       /\ c.cmds[1] = "remove --force"
       /\ Len(c.cmds) = 2 => (c.cmds[2] = "rmtree" /\ c.add = "error")
       /\ ~c.ok <=> (c.add = "error" /\ c.attach = "raises")
       /\ ~c.ok => Len(c.error) = 2
       /\ c.ok => (c.error = NoError /\ c.path \notin c.dirs_after)
       /\ c.add = "ok" => c.path \notin c.registry_after
       /\ c.add = "error" => c.registry_after = c.registry_before

====
